---- MODULE Spec2Model ----
(***************************************************************************)
(* The terminal gateway of runotebook (src/src/main.rs): the WebSocket     *)
(* handler with its sender task (Relay) and receiver task (Dispatcher),    *)
(* create_pty_session with its PTY reader thread, and the shared session   *)
(* map in AppState; the HTTP routes of main() with the token checks of     *)
(* src/src/auth.rs, the workspace handlers of src/src/workspace.rs and the *)
(* file store of src/src/file_ops.rs.                                      *)
(***************************************************************************)
EXTENDS Integers, Sequences, FiniteSets, TLC

(* ------------------------------ bounds --------------------------------- *)
\* PTY sessions spawned in one run.
MaxProcs == 2
\* Inbound frames handled in one run on one connection (Spec).
MaxFrames == 3
\* Frames handled over two connections (SharedSpec).
SharedFrames == 3
\* Sessions spawned, and bytes read from all terminals, where output alone is
\* followed (OutputSpec).
OutProcs == 2
OutBytes == 4
\* Sessions and frames where input alone is followed (InputSpec).
InProcs == 2
InFrames == 5
\* Length of the terminal output drawn for the read loop alone (LossySpec).
MaxBytes == 3
\* Length of the query string of a connection request, in words, and the
\* frames and sessions that follow the request (AuthSpec).
MaxQuery == 3
AuthFrames == 2
AuthProcs == 1
\* Frames and sessions where one id is created, closed and created again on
\* two connections (ReuseSpec).
ReuseFrames == 4
ReuseProcs == 2
\* Sessions, and bytes each shell writes, where delivery of the output is
\* followed to its end (LiveSpec).
LiveProcs == 1
LiveBytes == 2
\* Length of the path given to the file store, in characters (FileSpec).
MaxPath == 4
\* HTTP requests served in one run (RestSpec).
RestRequests == 2
\* Frames, sessions, and bytes each shell writes, where sessions are written
\* to from two connections while their output is read (DuplexSpec).
DuplexFrames == 3
DuplexProcs == 1
DuplexBytes == 1
\* Frames and sessions where sessions are resized more than once (GeomSpec).
GeomFrames == 4
GeomProcs == 2
\* Frames, and bytes each shell writes, where sessions with output are closed
\* (DrainSpec).
DrainFrames == 3
DrainBytes == 2

(* -------------------------- program constants -------------------------- *)
\* let mut buf = [0u8; 4096];
BufSize == 4096
\* openpty(PtySize { rows: 24, cols: 80, .. })
DefaultRows == 24
DefaultCols == 80

(* ------------------------------ domains -------------------------------- *)
Conns == {"c1", "c2"}
\* Ids a client puts in `create{id}`.
ClientIds == {"a"}
\* Uuid::new_v4().to_string(): a fresh id on every call.
UuidNames == <<"u1", "u2", "u3", "u4", "u5", "u6", "u7", "u8">>
UuidIds == {UuidNames[i] : i \in 1..Len(UuidNames)}
Ids == ClientIds \cup UuidIds
NoId == "-"
Procs == 1..MaxProcs
\* cols/rows a client puts in `resize`.
ResizeDims == {<<100, 30>>}
\* The cols and rows of `resize` frames where a session is resized twice.
GeomDims == {<<100, 30>>, <<120, 40>>}

Min(x, y) == IF x < y THEN x ELSE y

VARIABLES
    dpc,        \* receiver task (Dispatcher) of each connection: where it is
    dcur,       \* the session id and process of the frame it is handling
    nin,        \* frames the receiver task has taken from msg_stream
    relay,      \* sender task (Relay) of each connection
    transport,  \* write side of the WebSocket: "none", "open", "closed"
    outq,       \* the unbounded channel (tx, rx) of each connection
    wire,       \* frames written to the WebSocket, in order
    sessions,   \* AppState.sessions: id -> process whose handles it holds (0: absent)
    lock,       \* holder of the Mutex around sessions ("-": free)
    nextProc,   \* next process to spawn
    nextUuid,   \* next fresh uuid
    palive,     \* the shell of process p runs
    powner,     \* connection whose tx the reader thread of p holds
    psid,       \* session_id_clone of the reader thread of p
    rpc,        \* reader thread of p: "none", "reading", "ended"
    emitted,    \* bytes the shell of p writes to its terminal while it runs
    nread,      \* how many of them the reader thread has read
    stdin,      \* what was written to the terminal of p, in order
    geom,       \* <<cols, rows>> of the terminal of p
    released,   \* the PtySession of p (writer, master) was dropped
    request,    \* the HTTP request ws_handler was called with for each connection
    disk,       \* the filesystem: absolute path -> directory or file with its text
    fscall,     \* the call made to the file store and what it returned
    workspaces, \* Config.workspaces as ConfigManager holds it in memory
    saved,      \* Config.workspaces as the config file holds it
    repos,      \* what the git commands that succeeded left in the repositories
    http,       \* the HTTP request served last, its response, and how many were served
    creating    \* create_workspace as each worker thread runs it: where it is

connVars == <<dpc, dcur, nin, relay, transport, outq, wire, request>>
regVars == <<sessions, lock, nextProc, nextUuid>>
procVars == <<palive, powner, psid, rpc, emitted, nread, stdin, geom, released>>
restVars == <<disk, fscall, workspaces, saved, repos, http, creating>>
vars == <<connVars, regVars, procVars, restVars>>

(* ------------------------------ frames --------------------------------- *)
\* WsResponse, as serialized; proc is the process a frame stems from (not on the wire).
Created(id, p) == [type |-> "created", session_id |-> id, data |-> <<>>, proc |-> p]
Output(id, d, p) == [type |-> "output", session_id |-> id, data |-> d, proc |-> p]
Closed(id) == [type |-> "closed", session_id |-> id, data |-> <<>>, proc |-> 0]
ErrorMsg == [type |-> "error", session_id |-> NoId, data |-> <<>>, proc |-> 0]

NoCur == [sid |-> NoId, proc |-> 0]
FramesTaken == nin["c1"] + nin["c2"]
\* Ids a frame can name: the client's own and the uuids handed out so far.
KnownIds == ClientIds \cup {UuidNames[i] : i \in 1..(nextUuid - 1)}

(* --------------------------- UTF-8 conversion -------------------------- *)
IsAscii(b) == b < 128
IsCont(b) == b >= 128 /\ b < 192
IsLead2(b) == b >= 194 /\ b < 224
IsLead3(b) == b >= 225 /\ b < 237
Replacement == 65533

\* String::from_utf8_lossy: the code points of the valid sequences, U+FFFD for
\* each maximal invalid part.
RECURSIVE FromUtf8Lossy(_)
FromUtf8Lossy(bs) ==
    IF bs = <<>> THEN <<>>
    ELSE LET b == Head(bs)
             n == Len(bs)
         IN  IF IsAscii(b) THEN <<b>> \o FromUtf8Lossy(Tail(bs))
             ELSE IF IsLead2(b) /\ n >= 2 /\ IsCont(bs[2])
                  THEN <<(b - 192) * 64 + (bs[2] - 128)>>
                       \o FromUtf8Lossy(SubSeq(bs, 3, n))
             ELSE IF IsLead3(b) /\ n >= 3 /\ IsCont(bs[2]) /\ IsCont(bs[3])
                  THEN <<(b - 224) * 4096 + (bs[2] - 128) * 64 + (bs[3] - 128)>>
                       \o FromUtf8Lossy(SubSeq(bs, 4, n))
             ELSE IF IsLead3(b) /\ n >= 2 /\ IsCont(bs[2])
                  THEN <<Replacement>> \o FromUtf8Lossy(SubSeq(bs, 3, n))
             ELSE <<Replacement>> \o FromUtf8Lossy(Tail(bs))

\* str::as_bytes of a string given by its code points (below U+10000).
RECURSIVE AsBytes(_)
AsBytes(cps) ==
    IF cps = <<>> THEN <<>>
    ELSE LET cp == Head(cps)
             enc == IF cp < 128 THEN <<cp>>
                    ELSE IF cp < 2048 THEN <<192 + (cp \div 64), 128 + (cp % 64)>>
                    ELSE <<224 + (cp \div 4096), 128 + ((cp \div 64) % 64), 128 + (cp % 64)>>
         IN  enc \o AsBytes(Tail(cps))

\* Bytes of the terminal output drawn for the read loop: "h", the two bytes of
\* U+00E9 (C3 A9) and the lead byte of a three-byte sequence (E2).
ByteSet == {104, 195, 169, 226}

\* What a shell writes in the gateway model: n distinct ASCII letters, "a" first.
ShellOutput(n) == [k \in 1..n |-> 96 + k]

(* ---------------------------- the request ------------------------------ *)
\* A string of a request is a sequence of words: the key "token", the
\* separators of a query string, the scheme of an Authorization header, and
\* two token values.  The shared secret (Config.token) is the string "s".
QueryWords == {"token", "=", "&", "s", "x"}
Secret == <<"s">>
Queries == UNION {[1..n -> QueryWords] : n \in 0..MaxQuery}
\* None of an Option<String>; the request has no Authorization header.
NoToken == <<"none">>
NoHeader == <<"none">>
Headers == {NoHeader, <<"Bearer ", "s">>, <<"Bearer ", "x">>, <<"s">>}
\* upgrade: the request asks for the WebSocket handshake (actix_ws::handle is Ok).
Requests == [query : Queries, header : Headers, upgrade : BOOLEAN]
NoRequest == [query |-> <<"none">>, header |-> NoHeader, upgrade |-> FALSE]

\* Where the word w first stands in s (0: nowhere).
RECURSIVE IndexOf(_, _, _)
IndexOf(s, w, i) ==
    IF i > Len(s) THEN 0 ELSE IF s[i] = w THEN i ELSE IndexOf(s, w, i + 1)

\* str::split('&'): the parts between the separators.
RECURSIVE Split(_, _)
Split(s, sep) ==
    LET i == IndexOf(s, sep, 1)
    IN  IF i = 0 THEN <<s>>
        ELSE <<SubSeq(s, 1, i - 1)>> \o Split(SubSeq(s, i + 1, Len(s)), sep)

\* pair.splitn(2, '='), key == "token": the value of a pair `token=value`.
PairToken(pair) ==
    LET i == IndexOf(pair, "=", 1)
    IN  IF i = 0 THEN NoToken
        ELSE IF SubSeq(pair, 1, i - 1) = <<"token">>
             THEN SubSeq(pair, i + 1, Len(pair))
             ELSE NoToken

\* find_map over the pairs: the value of the first pair `token=value`.
RECURSIVE FindToken(_)
FindToken(pairs) ==
    IF pairs = <<>> THEN NoToken
    ELSE IF PairToken(Head(pairs)) # NoToken THEN PairToken(Head(pairs))
    ELSE FindToken(Tail(pairs))

\* req.query_string().split('&').find_map(..)
QueryToken(query) == FindToken(Split(query, "&"))

\* auth_str.strip_prefix("Bearer ")
HeaderToken(header) ==
    IF header # NoHeader /\ Len(header) >= 1 /\ header[1] = "Bearer "
    THEN Tail(header)
    ELSE NoToken

\* auth::extract_token_from_request: the query parameter first, then the header.
ExtractTokenFromRequest(req) ==
    IF QueryToken(req.query) # NoToken THEN QueryToken(req.query)
    ELSE HeaderToken(req.header)

\* A check that lets every token pass.
VerifyAny(token) == TRUE
\* ConfigManager::verify_token
VerifyToken(token) == token = Secret

\* A request with the secret in its query string, as a client of the gateway sends.
ClientRequest == [query |-> <<"token", "=">> \o Secret, header |-> NoHeader, upgrade |-> TRUE]

(* ---------------------------- the file store --------------------------- *)
\* A path given to the file store is a string of these characters; a name on
\* the disk is a string without "/", and an absolute path is the sequence of
\* its names.
PathChars == {"/", ".", "a"}
PathStrings == UNION {[1..n -> PathChars] : n \in 0..MaxPath}
DotDot == <<".", ".">>
CurDir == <<".">>
\* get_workspace_dir(): the directory the workspaces live in.
WorkspaceDir == << <<"w", "s">> >>

\* What the disk holds at a path.
Dir == [kind |-> "dir", text |-> <<>>]
File(text) == [kind |-> "file", text |-> text]
\* The text a client sends, and the text of a file that was there before.
NewText == <<"new">>
OldText == <<"old">>

\* The disk when the server starts: the root and the workspace directory.
InitDisk == [p \in {<<>>, WorkspaceDir} |-> Dir]
\* The same with a file /a, outside the workspace directory, and a file a
\* inside it.
UsedDisk ==
    [p \in {<<>>, WorkspaceDir, << <<"a">> >>, WorkspaceDir \o << <<"a">> >>}
       |-> IF Len(p) = 0 \/ p = WorkspaceDir THEN Dir ELSE File(OldText)]

Exists(d, p) == p \in DOMAIN d
IsDir(d, p) == p \in DOMAIN d /\ d[p].kind = "dir"
IsFile(d, p) == p \in DOMAIN d /\ d[p].kind = "file"
\* Path::parent: the path without its last name.
Parent(p) == SubSeq(p, 1, Len(p) - 1)
\* A path no walk arrives at.
NoPath == << <<"/">> >>

\* How the system walks a path name by name: `..` steps to the parent of a
\* directory that exists (the root is its own parent).
RECURSIVE Walk(_, _, _)
Walk(d, cur, rest) ==
    IF rest = <<>> THEN cur
    ELSE IF Head(rest) = DotDot
         THEN IF IsDir(d, cur)
              THEN Walk(d, IF cur = <<>> THEN cur ELSE Parent(cur), Tail(rest))
              ELSE NoPath
         ELSE Walk(d, Append(cur, Head(rest)), Tail(rest))
Resolve(d, p) == Walk(d, <<>>, p)

\* str::trim_start_matches('/')
RECURSIVE TrimStartMatches(_, _)
TrimStartMatches(s, ch) ==
    IF s # <<>> /\ Head(s) = ch THEN TrimStartMatches(Tail(s), ch) ELSE s

\* A check that finds the pattern nowhere.
ContainsNever(s, pat) == FALSE
\* str::contains: the pattern stands somewhere in the string.
Contains(s, pat) ==
    \E i \in 1..(Len(s) - Len(pat) + 1) : SubSeq(s, i, i + Len(pat) - 1) = pat

\* Path::components of a relative path behind a base: the names between the
\* separators; empty names and `.` are skipped, `..` is kept.
Components(s) ==
    SelectSeq(Split(s, "/"), LAMBDA name : name # <<>> /\ name # CurDir)
\* Path::join
Join(base, path) == base \o Components(path)
\* Path::starts_with, name by name.
StartsWith(p, base) == Len(p) >= Len(base) /\ SubSeq(p, 1, Len(base)) = base
\* Path::canonicalize(..).unwrap_or_else(|_| path): the path walked when it
\* exists, the path as it is written when it does not.
Canonicalize(d, p) == IF Exists(d, Resolve(d, p)) THEN Resolve(d, p) ELSE p

\* What a call of the file store returns, leaves on the disk, and which
\* calls to the filesystem it made.
Returned(result, d, calls) == [result |-> result, disk |-> d, calls |-> calls]
SysCall(op, p) == [op |-> op, path |-> p]

\* file_ops::safe_join: Err(InvalidInput) or Ok(joined).
SafeJoin(d, base, path) ==
    LET trimmed == TrimStartMatches(path, "/")
        joined == Join(base, trimmed)
    IN  IF Contains(trimmed, DotDot)
        THEN [err |-> "InvalidInput", path |-> NoPath, calls |-> <<>>]
        ELSE IF ~StartsWith(Canonicalize(d, joined), Canonicalize(d, base))
        THEN [err |-> "InvalidInput", path |-> NoPath,
              calls |-> <<SysCall("canonicalize", base), SysCall("canonicalize", joined)>>]
        ELSE [err |-> "none", path |-> joined,
              calls |-> <<SysCall("canonicalize", base), SysCall("canonicalize", joined)>>]

\* fs::create_dir_all: every directory on the way is made; it fails, and
\* makes nothing, where a file stands in the way.
RECURSIVE MkDirs(_, _, _)
MkDirs(d, cur, rest) ==
    IF IsFile(d, cur) THEN [ok |-> FALSE, disk |-> d]
    ELSE LET here == IF Exists(d, cur) THEN d
                     ELSE [p \in DOMAIN d \cup {cur} |-> IF p = cur THEN Dir ELSE d[p]]
         IN  IF rest = <<>> THEN [ok |-> TRUE, disk |-> here]
             ELSE IF Head(rest) = DotDot
                  THEN MkDirs(here, IF cur = <<>> THEN cur ELSE Parent(cur), Tail(rest))
                  ELSE MkDirs(here, Append(cur, Head(rest)), Tail(rest))
CreateDirAll(d, p) == MkDirs(d, <<>>, p)

\* fs::write: the file is made or overwritten where its directory exists.
FsWrite(d, p, text) ==
    LET at == Resolve(d, p)
    IN  IF at # NoPath /\ at # <<>> /\ IsDir(d, Parent(at)) /\ ~IsDir(d, at)
        THEN [ok |-> TRUE,
              disk |-> [q \in DOMAIN d \cup {at} |-> IF q = at THEN File(text) ELSE d[q]]]
        ELSE [ok |-> FALSE, disk |-> d]

\* fs::remove_file
FsRemoveFile(d, p) ==
    LET at == Resolve(d, p)
    IN  IF IsFile(d, at)
        THEN [ok |-> TRUE, disk |-> [q \in DOMAIN d \ {at} |-> d[q]]]
        ELSE [ok |-> FALSE, disk |-> d]

\* Path::file_stem: the last name up to its last "." (the whole name when the
\* only "." is the first character); no stem gives "Untitled".
RECURSIVE LastIndexOf(_, _, _)
LastIndexOf(s, w, i) ==
    IF i = 0 THEN 0 ELSE IF s[i] = w THEN i ELSE LastIndexOf(s, w, i - 1)
FileStem(p) ==
    IF p = <<>> \/ p[Len(p)] = DotDot THEN <<"Untitled">>
    ELSE LET name == p[Len(p)]
             dot == LastIndexOf(name, ".", Len(name))
         IN  IF dot <= 1 THEN name ELSE SubSeq(name, 1, dot - 1)
\* format!("# {}\n\nNew runbook created.\n", stem)
DefaultContent(p) == <<"# ">> \o FileStem(p) \o <<"\n\nNew runbook created.\n">>
\* content: Option<&str>
NoContent == <<"none">>

\* file_ops::read_file
ReadFile(d, base, path) ==
    LET j == SafeJoin(d, base, path)
    IN  IF j.err # "none" THEN Returned(j.err, d, j.calls)
        ELSE IF ~Exists(d, Resolve(d, j.path))
        THEN Returned("NotFound", d, j.calls \o <<SysCall("exists", j.path)>>)
        ELSE Returned(IF IsFile(d, Resolve(d, j.path)) THEN "Ok" ELSE "Other", d,
                      j.calls \o <<SysCall("exists", j.path),
                                   SysCall("read_to_string", j.path)>>)

\* file_ops::write_file
WriteFile(d, base, path, content) ==
    LET j == SafeJoin(d, base, path)
        made == IF j.path = <<>> THEN [ok |-> TRUE, disk |-> d]
                ELSE CreateDirAll(d, Parent(j.path))
        mkdir == IF j.path = <<>> THEN <<>>
                 ELSE <<SysCall("create_dir_all", Parent(j.path))>>
        written == FsWrite(made.disk, j.path, content)
    IN  IF j.err # "none" THEN Returned(j.err, d, j.calls)
        ELSE IF ~made.ok THEN Returned("Other", d, j.calls \o mkdir)
        ELSE Returned(IF written.ok THEN "Ok" ELSE "Other", written.disk,
                      j.calls \o mkdir \o <<SysCall("write", j.path)>>)

\* file_ops::create_file
CreateFile(d, base, path, content) ==
    LET j == SafeJoin(d, base, path)
        made == IF j.path = <<>> THEN [ok |-> TRUE, disk |-> d]
                ELSE CreateDirAll(d, Parent(j.path))
        mkdir == IF j.path = <<>> THEN <<>>
                 ELSE <<SysCall("create_dir_all", Parent(j.path))>>
        text == IF content = NoContent THEN DefaultContent(j.path) ELSE content
        written == FsWrite(made.disk, j.path, text)
    IN  IF j.err # "none" THEN Returned(j.err, d, j.calls)
        ELSE IF Exists(d, Resolve(d, j.path))
        THEN Returned("AlreadyExists", d, j.calls \o <<SysCall("exists", j.path)>>)
        ELSE IF ~made.ok
        THEN Returned("Other", d, j.calls \o <<SysCall("exists", j.path)>> \o mkdir)
        ELSE Returned(IF written.ok THEN "Ok" ELSE "Other", written.disk,
                      j.calls \o <<SysCall("exists", j.path)>> \o mkdir
                              \o <<SysCall("write", j.path)>>)

\* file_ops::delete_file
DeleteFile(d, base, path) ==
    LET j == SafeJoin(d, base, path)
        removed == FsRemoveFile(d, j.path)
    IN  IF j.err # "none" THEN Returned(j.err, d, j.calls)
        ELSE IF ~Exists(d, Resolve(d, j.path))
        THEN Returned("NotFound", d, j.calls \o <<SysCall("exists", j.path)>>)
        ELSE Returned(IF removed.ok THEN "Ok" ELSE "Other", removed.disk,
                      j.calls \o <<SysCall("exists", j.path),
                                   SysCall("remove_file", j.path)>>)

\* No call was made to the file store.
NoCall == [op |-> "none", base |-> <<>>, path |-> <<>>, result |-> "none", calls |-> <<>>]
\* The directories the file store is called with: one that exists and one
\* that may not.
Bases == {WorkspaceDir, WorkspaceDir \o << <<"a">> >>}

(* ------------------------- the HTTP server: data ----------------------- *)
\* {name} and {branch} of the routes, the branches a workspace is based on,
\* and the name a branch is renamed to.
WsNames == {"w"}
BranchNames == {"b"}
BaseBranches == {"main", "dev"}
NewBranchName == "c"
RepoUrl == "url"
\* The characters of the names that become names on the disk.
Chars(s) ==
    CASE s = "w" -> <<"w">>
      [] s = "b" -> <<"b">>
      [] s = "c" -> <<"c">>
      [] s = "repo" -> <<"r", "e", "p", "o">>
      [] s = "worktrees" -> <<"w", "o", "r", "k", "t", "r", "e", "e", "s">>

\* str::replace of one character.
RECURSIVE Replace(_, _, _)
Replace(s, from, to) ==
    IF s = <<>> THEN <<>>
    ELSE <<IF Head(s) = from THEN to ELSE Head(s)>> \o Replace(Tail(s), from, to)
\* config::sanitize_branch_name
SanitizeBranchName(name) == Replace(Replace(name, "/", "_"), "\\", "_")

\* ConfigManager::workspace_path, repo_path, worktrees_path, worktree_path
WorkspacePath(name) == WorkspaceDir \o <<Chars(name)>>
RepoPath(workspace) == WorkspacePath(workspace) \o <<Chars("repo")>>
WorktreesPath(workspace) == WorkspacePath(workspace) \o <<Chars("worktrees")>>
WorktreePath(workspace, branch) ==
    WorktreesPath(workspace) \o <<SanitizeBranchName(Chars(branch))>>

\* fs::remove_dir_all: the directory and all below it.
RemoveDirAll(d, p) == [q \in {q \in DOMAIN d : ~StartsWith(q, p)} |-> d[q]]
\* A directory made by a command (git clone, git worktree add).
WithDir(d, p) == [q \in DOMAIN d \cup {p} |-> IF q = p THEN Dir ELSE d[q]]

\* WorkspaceConfig (created_at left out); None of get_workspace.
WorkspaceConfig(repo_url, base_branch) == [repo_url |-> repo_url, base_branch |-> base_branch]
NoWorkspace == WorkspaceConfig("none", "none")
\* What a git command that succeeded left in the repository of a workspace;
\* branch "-" where it is the bare repository's.
Did(workspace, branch, what) == <<workspace, branch, what>>
\* The repository of a workspace is deleted with its directory.
WithoutRepo(r, workspace) == {f \in r : f[1] # workspace}

\* The requests: method, path (the segments between the "/"), query string
\* and Authorization header.
Methods == {"GET", "POST", "PUT", "DELETE"}
\* What a request carries as its token: nothing; the secret in the query
\* string; the secret in the Authorization header; another token in the query
\* string, which is looked at first, before the secret in the header.
Cred(query, header) == [query |-> query, header |-> header]
Creds ==
    {Cred(<<>>, NoHeader),
     Cred(<<"token", "=">> \o Secret, NoHeader),
     Cred(<<>>, <<"Bearer ">> \o Secret),
     Cred(<<"token", "=", "x">>, <<"Bearer ">> \o Secret)}
HttpRequest(method, path, cred) ==
    [method |-> method, path |-> path, query |-> cred.query, header |-> cred.header]
\* The paths of the routes below /api/workspaces.
WorkspacePaths == {<<"api", "workspaces", w>> : w \in WsNames}
BranchesPaths == {<<"api", "workspaces", w, "branches">> : w \in WsNames}
BranchPaths == {<<"api", "workspaces", w, "branches", b>> : w \in WsNames, b \in BranchNames}
BranchOpPaths(op) ==
    {<<"api", "workspaces", w, "branches", b, op>> : w \in WsNames, b \in BranchNames}
\* ./static holds index.html.
StaticPaths == {<<"index.html">>}
\* Paths that are requested with every method: a static file, a path below
\* /api/ that has no route, and paths whose route takes one method.
OtherPaths == StaticPaths \cup {<<"api", "other">>, <<"api", "console">>, <<"ws">>}
RequestsTo(method, paths) == {HttpRequest(method, p, c) : p \in paths, c \in Creds}
\* ?path= of the file routes.
FilePaths == {<<"a">>, <<".", ".", "/", "a">>}

\* A path pattern of a route matches a path: "{}" stands for any segment.
Matches(path, pattern) ==
    /\ Len(path) = Len(pattern)
    /\ \A i \in 1..Len(pattern) : pattern[i] = "{}" \/ pattern[i] = path[i]
Branch(op) == <<"api", "workspaces", "{}", "branches", "{}", op>>

\* The routes of App::new() in main(), in their order; a request no route
\* takes goes to the Files service, which is last.
Route(method, path) ==
    CASE method = "GET" /\ Matches(path, <<"ws">>) -> "ws_handler"
      [] method = "POST" /\ Matches(path, <<"api", "console">>) -> "console_log_handler"
      [] method = "GET" /\ Matches(path, <<"api", "auth", "check">>) -> "auth_check_handler"
      [] method = "GET" /\ Matches(path, <<"api", "workspaces">>) -> "list_workspaces"
      [] method = "POST" /\ Matches(path, <<"api", "workspaces">>) -> "create_workspace"
      [] method = "DELETE" /\ Matches(path, <<"api", "workspaces", "{}">>) -> "delete_workspace"
      [] method = "GET" /\ Matches(path, <<"api", "workspaces", "{}", "branches">>)
           -> "list_branches"
      [] method = "POST" /\ Matches(path, <<"api", "workspaces", "{}", "branches">>)
           -> "create_branch"
      [] method = "DELETE" /\ Matches(path, <<"api", "workspaces", "{}", "branches", "{}">>)
           -> "delete_branch"
      [] method = "GET" /\ Matches(path, Branch("files")) -> "list_files"
      [] method = "GET" /\ Matches(path, Branch("file")) -> "read_file"
      [] method = "PUT" /\ Matches(path, Branch("file")) -> "save_file"
      [] method = "POST" /\ Matches(path, Branch("commit")) -> "commit_files"
      [] method = "POST" /\ Matches(path, Branch("push")) -> "push_branch"
      [] method = "POST" /\ Matches(path, Branch("pull")) -> "pull_branch"
      [] method = "POST" /\ Matches(path, Branch("rebase")) -> "rebase_branch"
      [] method = "POST" /\ Matches(path, Branch("checkout")) -> "change_base_branch"
      [] method = "POST" /\ Matches(path, Branch("rename")) -> "rename_branch"
      [] OTHER -> "files"

\* auth::requires_auth: "/api/..." but "/api/auth/check", and "/ws".
RequiresAuth(path) ==
    IF Len(path) >= 2 /\ path[1] = "api"
    THEN path # <<"api", "auth", "check">>
    ELSE path = <<"ws">>

\* A check that lets every request pass.
CheckAuthAlways(req) == TRUE
\* auth::check_auth is Ok: the request carries a token and it is the secret.
CheckAuth(req) ==
    ExtractTokenFromRequest(req) # NoToken /\ VerifyToken(ExtractTokenFromRequest(req))

\* The worker threads of the HTTP server, and a worker that is not in
\* create_workspace.
Workers == {"k1", "k2"}
NotCreating ==
    [pc |-> "idle", name |-> "none", repo_url |-> "none", base_branch |-> "none",
     status |-> 0]

\* No request was served.
NoHttp ==
    [n |-> 0, method |-> "none", path |-> <<>>, query |-> <<>>, header |-> NoHeader,
     status |-> 0, handler |-> "none"]

\* The server holds no workspace and has served nothing; the file store was
\* not called.
IdleServer ==
    /\ disk = InitDisk
    /\ fscall = NoCall
    /\ workspaces = [w \in WsNames |-> NoWorkspace]
    /\ saved = [w \in WsNames |-> NoWorkspace]
    /\ repos = {}
    /\ http = NoHttp
    /\ creating = [k \in Workers |-> NotCreating]

(* ------------------------------- Init ---------------------------------- *)
\* The gateway with no connection and no session.
IdleGateway ==
    /\ dpc = [c \in Conns |-> "none"]
    /\ dcur = [c \in Conns |-> NoCur]
    /\ nin = [c \in Conns |-> 0]
    /\ relay = [c \in Conns |-> "none"]
    /\ transport = [c \in Conns |-> "none"]
    /\ outq = [c \in Conns |-> <<>>]
    /\ wire = [c \in Conns |-> <<>>]
    /\ sessions = [i \in Ids |-> 0]
    /\ lock = "-"
    /\ nextProc = 1
    /\ nextUuid = 1
    /\ palive = [p \in Procs |-> FALSE]
    /\ powner = [p \in Procs |-> "-"]
    /\ psid = [p \in Procs |-> NoId]
    /\ rpc = [p \in Procs |-> "none"]
    /\ emitted = [p \in Procs |-> <<>>]
    /\ nread = [p \in Procs |-> 0]
    /\ stdin = [p \in Procs |-> <<>>]
    /\ geom = [p \in Procs |-> <<0, 0>>]
    /\ released = [p \in Procs |-> FALSE]
    /\ request = [c \in Conns |-> NoRequest]

Init == IdleGateway /\ IdleServer

(* --------------------------- shared helpers ---------------------------- *)
\* HashMap::insert: the new value takes the key's place, whatever was there.
Insert(m, id, p) == [m EXCEPT ![id] = p]
\* A map that keeps the entry it is asked to remove.
RemoveNothing(m, id) == m
\* HashMap::remove
Remove(m, id) == [m EXCEPT ![id] = 0]
\* A channel that loses the frame.
SendLost(q, f) == q
\* A channel that hands its newest frame on first (no FIFO order).
SendFront(q, f) == <<f>> \o q
\* tx.send on the unbounded channel: to the back of the queue.
Send(q, f) == Append(q, f)
\* session.text(msg): the frame goes out on the WebSocket after those before it.
Text(w, f) == Append(w, f)
\* A write that lands before the bytes written earlier.
WriteFront(in, tok) == <<tok>> \o in
\* writer.write_all(data) then flush: the bytes follow those written before.
WriteAll(in, tok) == Append(in, tok)
\* Dropping a PtySession releases its writer and master.
Drop(rel, p) == IF p = 0 THEN rel ELSE [rel EXCEPT ![p] = TRUE]
\* The data of the input frame the receiver task of c is handling.
Token(c, id) == [conn |-> c, seq |-> nin[c], sid |-> id]

(* ------------------------- connection gateway -------------------------- *)
\* ws_handler: the token check on the query string, the handshake, the
\* channel and the two tasks.  A request that fails the check, or the
\* handshake, is answered and starts nothing.
WsHandler(c, req) ==
    /\ dpc[c] = "none"
    /\ request' = [request EXCEPT ![c] = req]
    /\ LET token == QueryToken(req.query)
       IN  IF token # NoToken /\ VerifyToken(token) /\ req.upgrade
           THEN /\ dpc' = [dpc EXCEPT ![c] = "recv"]
                /\ relay' = [relay EXCEPT ![c] = "running"]
                /\ transport' = [transport EXCEPT ![c] = "open"]
           ELSE /\ dpc' = [dpc EXCEPT ![c] = "rejected"]
                /\ UNCHANGED <<relay, transport>>
    /\ UNCHANGED <<dcur, nin, outq, wire, regVars, procVars, restVars>>

\* ws_handler called with a client's request.
Connect(c) == WsHandler(c, ClientRequest)

\* The write side of the WebSocket goes away (the peer is gone).
TransportFail(c) ==
    /\ transport[c] = "open"
    /\ transport' = [transport EXCEPT ![c] = "closed"]
    /\ UNCHANGED <<restVars, request, dpc, dcur, nin, relay, outq, wire, regVars, procVars>>

(* --------------------------- receiver task ----------------------------- *)
\* The receiver task awaits msg_stream.next().
CanTake(c) == dpc[c] = "recv"

\* WsMessage::Create up to the end of create_pty_session's thread spawn; ok is
\* whether openpty, spawn_command, take_writer and try_clone_reader succeeded.
RecvCreate(c, idopt, ok, out) ==
    /\ CanTake(c)
    /\ idopt = NoId => nextUuid <= Len(UuidNames)
    /\ ok => nextProc <= MaxProcs
    /\ LET session_id == IF idopt = NoId THEN UuidNames[nextUuid] ELSE idopt
           p == nextProc
       IN  /\ nin' = [nin EXCEPT ![c] = @ + 1]
           /\ nextUuid' = IF idopt = NoId THEN nextUuid + 1 ELSE nextUuid
           /\ IF ok
              THEN /\ nextProc' = p + 1
                   /\ palive' = [palive EXCEPT ![p] = TRUE]
                   /\ powner' = [powner EXCEPT ![p] = c]
                   /\ psid' = [psid EXCEPT ![p] = session_id]
                   /\ rpc' = [rpc EXCEPT ![p] = "reading"]
                   /\ emitted' = [emitted EXCEPT ![p] = out]
                   /\ geom' = [geom EXCEPT ![p] = <<DefaultCols, DefaultRows>>]
                   /\ dpc' = [dpc EXCEPT ![c] = "insert"]
                   /\ dcur' = [dcur EXCEPT ![c] = [sid |-> session_id, proc |-> p]]
              ELSE /\ dpc' = [dpc EXCEPT ![c] = "error_reply"]
                   /\ dcur' = [dcur EXCEPT ![c] = [sid |-> session_id, proc |-> 0]]
                   /\ UNCHANGED <<nextProc, palive, powner, psid, rpc, geom, emitted>>
    /\ UNCHANGED <<restVars, request, relay, transport, outq, wire, sessions, lock, nread, stdin, released>>

\* create_pty_session: state.sessions.lock().await.insert(session_id, pty_session)
CreateInsert(c) ==
    /\ dpc[c] = "insert"
    /\ lock = "-"
    /\ sessions' = Insert(sessions, dcur[c].sid, dcur[c].proc)
    /\ released' = Drop(released, sessions[dcur[c].sid])
    /\ dpc' = [dpc EXCEPT ![c] = "created_reply"]
    /\ UNCHANGED <<restVars, request, dcur, nin, relay, transport, outq, wire, lock, nextProc, nextUuid,
                   palive, powner, psid, rpc, emitted, nread, stdin, geom>>

\* session.text(..) of the receiver task: Err when the WebSocket is closed (ignored).
Reply(c, f) ==
    wire' = IF transport[c] = "open" THEN [wire EXCEPT ![c] = Text(@, f)] ELSE wire

\* Ok(_) => session.text(Created { session_id })
CreatedReply(c) ==
    /\ dpc[c] = "created_reply"
    /\ Reply(c, Created(dcur[c].sid, dcur[c].proc))
    /\ dpc' = [dpc EXCEPT ![c] = "recv"]
    /\ dcur' = [dcur EXCEPT ![c] = NoCur]
    /\ UNCHANGED <<restVars, request, nin, relay, transport, outq, regVars, procVars>>

\* A failed spawn answered like a successful one.
CreatedReplyOnError(c) ==
    /\ dpc[c] = "error_reply"
    /\ Reply(c, Created(dcur[c].sid, 0))
    /\ dpc' = [dpc EXCEPT ![c] = "recv"]
    /\ dcur' = [dcur EXCEPT ![c] = NoCur]
    /\ UNCHANGED <<restVars, request, nin, relay, transport, outq, regVars, procVars>>

\* Err(e) => session.text(Error { message })
ErrorReply(c) ==
    /\ dpc[c] = "error_reply"
    /\ Reply(c, ErrorMsg)
    /\ dpc' = [dpc EXCEPT ![c] = "recv"]
    /\ dcur' = [dcur EXCEPT ![c] = NoCur]
    /\ UNCHANGED <<restVars, request, nin, relay, transport, outq, regVars, procVars>>

\* An `input` that answers a failed write with an `error` frame.
RecvInputReportsError(c, id, blocks) ==
    /\ CanTake(c)
    /\ lock = "-"
    /\ nin' = [nin EXCEPT ![c] = @ + 1]
    /\ LET p == sessions[id]
       IN  IF p = 0 \/ ~palive[p]
           THEN /\ ~blocks
                /\ IF p = 0 THEN UNCHANGED wire ELSE Reply(c, ErrorMsg)
                /\ UNCHANGED <<dpc, dcur, lock, stdin>>
           ELSE IF ~blocks
           THEN /\ stdin' = [stdin EXCEPT ![p] = WriteAll(@, Token(c, id)')]
                /\ UNCHANGED <<dpc, dcur, lock, wire>>
           ELSE /\ dpc' = [dpc EXCEPT ![c] = "write"]
                /\ dcur' = [dcur EXCEPT ![c] = [sid |-> id, proc |-> p]]
                /\ lock' = c
                /\ UNCHANGED <<stdin, wire>>
    /\ UNCHANGED <<restVars, request, relay, transport, outq, sessions, nextProc, nextUuid,
                   palive, powner, psid, rpc, emitted, nread, geom, released>>

\* An `input` that does not wait for the lock.
RecvInputUnlocked(c, id, blocks) ==
    /\ CanTake(c)
    /\ nin' = [nin EXCEPT ![c] = @ + 1]
    /\ LET p == sessions[id]
       IN  IF p = 0 \/ ~palive[p]
           THEN /\ ~blocks
                /\ UNCHANGED <<dpc, dcur, lock, stdin>>
           ELSE IF ~blocks
           THEN /\ stdin' = [stdin EXCEPT ![p] = WriteAll(@, [conn |-> c, seq |-> nin'[c], sid |-> id])]
                /\ UNCHANGED <<dpc, dcur, lock>>
           ELSE /\ dpc' = [dpc EXCEPT ![c] = "write"]
                /\ dcur' = [dcur EXCEPT ![c] = [sid |-> id, proc |-> p]]
                /\ lock' = c
                /\ UNCHANGED stdin
    /\ UNCHANGED <<restVars, request, relay, transport, outq, wire, sessions, nextProc, nextUuid,
                   palive, powner, psid, rpc, emitted, nread, geom, released>>

\* WsMessage::Input: lock, get_mut, write_all, flush.  A write to a shell that
\* has exited fails and is logged.  write_all is a blocking call made with the
\* lock held: blocks is whether the terminal takes the data at once or only
\* once the shell has read what is queued before it.
RecvInput(c, id, blocks) ==
    /\ CanTake(c)
    /\ lock = "-"
    /\ nin' = [nin EXCEPT ![c] = @ + 1]
    /\ LET p == sessions[id]
       IN  IF p = 0 \/ ~palive[p]
           THEN /\ ~blocks
                /\ UNCHANGED <<dpc, dcur, lock, stdin>>
           ELSE IF ~blocks
           THEN /\ stdin' = [stdin EXCEPT ![p] = WriteAll(@, Token(c, id)')]
                /\ UNCHANGED <<dpc, dcur, lock>>
           ELSE /\ dpc' = [dpc EXCEPT ![c] = "write"]
                /\ dcur' = [dcur EXCEPT ![c] = [sid |-> id, proc |-> p]]
                /\ lock' = c
                /\ UNCHANGED stdin
    /\ UNCHANGED <<restVars, request, relay, transport, outq, wire, sessions, nextProc, nextUuid,
                   palive, powner, psid, rpc, emitted, nread, geom, released>>

\* The blocked write_all returns: the shell took the bytes, or it is gone (Err).
WriteReturn(c) ==
    /\ dpc[c] = "write"
    /\ LET p == dcur[c].proc
       IN  stdin' = IF palive[p]
                    THEN [stdin EXCEPT ![p] = WriteAll(@, Token(c, dcur[c].sid))]
                    ELSE stdin
    /\ lock' = "-"
    /\ dpc' = [dpc EXCEPT ![c] = "recv"]
    /\ dcur' = [dcur EXCEPT ![c] = NoCur]
    /\ UNCHANGED <<restVars, request, nin, relay, transport, outq, wire, sessions, nextProc, nextUuid,
                   palive, powner, psid, rpc, emitted, nread, geom, released>>

\* A resize that answers an unknown id with an `error` frame.
RecvResizeOrError(c, id, dims, ok) ==
    /\ CanTake(c)
    /\ lock = "-"
    /\ sessions[id] = 0 => ok
    /\ nin' = [nin EXCEPT ![c] = @ + 1]
    /\ IF sessions[id] = 0
       THEN Reply(c, ErrorMsg) /\ UNCHANGED geom
       ELSE /\ geom' = IF ok THEN [geom EXCEPT ![sessions[id]] = dims] ELSE geom
            /\ UNCHANGED wire
    /\ UNCHANGED <<restVars, request, dpc, dcur, relay, transport, outq, regVars,
                   palive, powner, psid, rpc, emitted, nread, stdin, released>>

\* A resize that resizes every registered session.
RecvResizeEvery(c, id, dims, ok) ==
    /\ CanTake(c)
    /\ lock = "-"
    /\ sessions[id] = 0 => ok
    /\ nin' = [nin EXCEPT ![c] = @ + 1]
    /\ geom' = IF sessions[id] = 0 \/ ~ok
               THEN geom
               ELSE [p \in Procs |-> IF psid[p] # NoId /\ sessions[psid[p]] = p THEN dims ELSE geom[p]]
    /\ UNCHANGED <<restVars, request, dpc, dcur, relay, transport, outq, wire, regVars,
                   palive, powner, psid, rpc, emitted, nread, stdin, released>>

\* WsMessage::Resize: lock, get, master.resize; ok is whether master.resize
\* returned Ok (an Err is logged and nothing else happens).
RecvResize(c, id, dims, ok) ==
    /\ CanTake(c)
    /\ lock = "-"
    /\ sessions[id] = 0 => ok
    /\ nin' = [nin EXCEPT ![c] = @ + 1]
    /\ geom' = IF sessions[id] = 0 \/ ~ok THEN geom ELSE [geom EXCEPT ![sessions[id]] = dims]
    /\ UNCHANGED <<restVars, request, dpc, dcur, relay, transport, outq, wire, regVars,
                   palive, powner, psid, rpc, emitted, nread, stdin, released>>

\* WsMessage::Close: lock, remove; the guard lives until the end of the arm.
RecvClose(c, id) ==
    /\ CanTake(c)
    /\ lock = "-"
    /\ nin' = [nin EXCEPT ![c] = @ + 1]
    /\ sessions' = Remove(sessions, id)
    /\ released' = Drop(released, sessions[id])
    /\ lock' = c
    /\ dpc' = [dpc EXCEPT ![c] = "close_reply"]
    /\ dcur' = [dcur EXCEPT ![c] = [sid |-> id, proc |-> 0]]
    /\ UNCHANGED <<restVars, request, relay, transport, outq, wire, nextProc, nextUuid,
                   palive, powner, psid, rpc, emitted, nread, stdin, geom>>

\* session.text(Closed { session_id }), then the lock guard is dropped.
ClosedReply(c) ==
    /\ dpc[c] = "close_reply"
    /\ Reply(c, Closed(dcur[c].sid))
    /\ lock' = "-"
    /\ dpc' = [dpc EXCEPT ![c] = "recv"]
    /\ dcur' = [dcur EXCEPT ![c] = NoCur]
    /\ UNCHANGED <<restVars, request, nin, relay, transport, outq, sessions, nextProc, nextUuid, procVars>>

\* A decode error that ends the receiver task.
RecvFatal(c) ==
    /\ CanTake(c)
    /\ nin' = [nin EXCEPT ![c] = @ + 1]
    /\ dpc' = [dpc EXCEPT ![c] = "ended"]
    /\ UNCHANGED <<restVars, request, dcur, relay, transport, outq, wire, regVars, procVars>>

\* A text frame serde_json cannot decode, or a Binary/Pong/other frame: logged.
RecvIgnored(c) ==
    /\ CanTake(c)
    /\ nin' = [nin EXCEPT ![c] = @ + 1]
    /\ UNCHANGED <<restVars, request, dpc, dcur, relay, transport, outq, wire, regVars, procVars>>

\* Message::Close, a receive error, or the end of msg_stream: the loop ends.
RecvEnd(c) ==
    /\ dpc[c] = "recv"
    /\ dpc' = [dpc EXCEPT ![c] = "ended"]
    /\ UNCHANGED <<restVars, request, dcur, nin, relay, transport, outq, wire, regVars, procVars>>

(* ----------------------------- sender task ----------------------------- *)
\* The tx clones alive: the receiver task's and one per reader thread.
SendersLeft(c) ==
    \/ dpc[c] \notin {"none", "ended"}
    \/ \E p \in Procs : powner[p] = c /\ rpc[p] = "reading"

\* while let Some(msg) = rx.recv().await { if session_clone.text(msg).is_err() { break } }
RelaySend(c) ==
    /\ relay[c] = "running"
    /\ outq[c] # <<>>
    /\ IF transport[c] = "open"
       THEN /\ wire' = [wire EXCEPT ![c] = Text(@, Head(outq[c]))]
            /\ outq' = [outq EXCEPT ![c] = Tail(@)]
            /\ UNCHANGED relay
       ELSE /\ relay' = [relay EXCEPT ![c] = "failed"]
            /\ outq' = [outq EXCEPT ![c] = <<>>]
            /\ UNCHANGED wire
    /\ UNCHANGED <<restVars, request, dpc, dcur, nin, transport, regVars, procVars>>

\* rx.recv() returns None: every sender is dropped and the queue is empty.
RelayEnd(c) ==
    /\ relay[c] = "running"
    /\ outq[c] = <<>>
    /\ ~SendersLeft(c)
    /\ relay' = [relay EXCEPT ![c] = "ended"]
    /\ UNCHANGED <<restVars, request, dpc, dcur, nin, transport, outq, wire, regVars, procVars>>

(* ---------------------------- reader thread ---------------------------- *)
\* Bytes read from all terminals.
RECURSIVE SumRead(_)
SumRead(p) == IF p = 0 THEN 0 ELSE nread[p] + SumRead(p - 1)
BytesRead == SumRead(MaxProcs)

\* Bytes the shell of p has still to write.
Unread(p) == Len(emitted[p]) - nread[p]

\* A read loop that writes its frame to the WebSocket itself.
ReaderWrites(p, n) ==
    /\ rpc[p] = "reading"
    /\ palive[p]
    /\ n >= 1 /\ n <= Min(Unread(p), BufSize)
    /\ nread' = [nread EXCEPT ![p] = @ + n]
    /\ LET chunk == SubSeq(emitted[p], nread[p] + 1, nread[p] + n)
           resp == Output(psid[p], FromUtf8Lossy(chunk), p)
       IN  wire' = [wire EXCEPT ![powner[p]] = Text(@, resp)]
    /\ UNCHANGED <<restVars, request, dpc, dcur, nin, relay, transport, outq, regVars,
                   palive, powner, psid, rpc, emitted, stdin, geom, released>>

\* A read loop that hands its frame to every connection's channel.
ReaderBroadcasts(p, n) ==
    /\ rpc[p] = "reading"
    /\ palive[p]
    /\ n >= 1 /\ n <= Min(Unread(p), BufSize)
    /\ nread' = [nread EXCEPT ![p] = @ + n]
    /\ LET chunk == SubSeq(emitted[p], nread[p] + 1, nread[p] + n)
           resp == Output(psid[p], FromUtf8Lossy(chunk), p)
       IN  outq' = [c \in Conns |-> IF relay[c] = "running" THEN Send(outq[c], resp) ELSE outq[c]]
    /\ UNCHANGED <<restVars, request, dpc, dcur, nin, relay, transport, wire, regVars,
                   palive, powner, psid, rpc, emitted, stdin, geom, released>>

\* reader.read returns Ok(n): the next n bytes the shell wrote.  One Output
\* frame of from_utf8_lossy(&buf[..n]) is sent on tx; the thread ends when the
\* send fails (rx is dropped).
ReaderRead(p, n) ==
    /\ rpc[p] = "reading"
    /\ palive[p]
    /\ n >= 1 /\ n <= Min(Unread(p), BufSize)
    /\ nread' = [nread EXCEPT ![p] = @ + n]
    /\ LET chunk == SubSeq(emitted[p], nread[p] + 1, nread[p] + n)
           resp == Output(psid[p], FromUtf8Lossy(chunk), p)
       IN  IF relay[powner[p]] = "running"
           THEN /\ outq' = [outq EXCEPT ![powner[p]] = Send(@, resp)]
                /\ UNCHANGED rpc
           ELSE /\ rpc' = [rpc EXCEPT ![p] = "ended"]
                /\ UNCHANGED outq
    /\ UNCHANGED <<restVars, request, dpc, dcur, nin, relay, transport, wire, regVars,
                   palive, powner, psid, emitted, stdin, geom, released>>

\* A read loop that sends `closed` when it ends.
ReaderEofCloses(p) ==
    /\ rpc[p] = "reading"
    /\ ~palive[p]
    /\ rpc' = [rpc EXCEPT ![p] = "ended"]
    /\ outq' = IF relay[powner[p]] = "running"
               THEN [outq EXCEPT ![powner[p]] = Send(@, Closed(psid[p]))]
               ELSE outq
    /\ UNCHANGED <<restVars, dpc, dcur, nin, relay, transport, wire, request, regVars,
                   palive, powner, psid, emitted, nread, stdin, geom, released>>

\* An end of stream that ends every read loop.
ReaderEofEndsAll(p) ==
    /\ rpc[p] = "reading"
    /\ ~palive[p]
    /\ rpc' = [q \in Procs |-> IF rpc[q] = "reading" THEN "ended" ELSE rpc[q]]
    /\ UNCHANGED <<restVars, connVars, regVars,
                   palive, powner, psid, emitted, nread, stdin, geom, released>>

\* reader.read returns Ok(0) or Err(e): the shell is gone.
ReaderEof(p) ==
    /\ rpc[p] = "reading"
    /\ ~palive[p]
    /\ rpc' = [rpc EXCEPT ![p] = "ended"]
    /\ UNCHANGED <<restVars, connVars, regVars,
                   palive, powner, psid, emitted, nread, stdin, geom, released>>

(* ------------------------------ the shell ------------------------------ *)
\* The shell exits.
ProcExit(p) ==
    /\ palive[p]
    /\ palive' = [palive EXCEPT ![p] = FALSE]
    /\ UNCHANGED <<restVars, connVars, regVars,
                   powner, psid, rpc, emitted, nread, stdin, geom, released>>

(* ----------------------- the file store, called ------------------------ *)
\* One of the four functions of the file store is called with the base and
\* the path of fscall; what it returns and leaves on the disk.
Called(op, r) ==
    /\ fscall.base \in Bases
    /\ fscall' = [fscall EXCEPT !.op = op, !.result = r.result, !.calls = r.calls]
    /\ disk' = r.disk
    /\ UNCHANGED <<connVars, regVars, procVars, workspaces, saved, repos, http, creating>>

CallReadFile == Called("read_file", ReadFile(disk, fscall.base, fscall.path))
CallWriteFile(content) ==
    Called("write_file", WriteFile(disk, fscall.base, fscall.path, content))
CallCreateFile(content) ==
    Called("create_file", CreateFile(disk, fscall.base, fscall.path, content))
CallDeleteFile == Called("delete_file", DeleteFile(disk, fscall.base, fscall.path))

(* ---------------------- the HTTP server: handlers ---------------------- *)
\* The request goes to the handler its method and path are routed to.
Serves(handler, req) ==
    /\ http.n < RestRequests
    /\ Route(req.method, req.path) = handler
\* The response, by its status.
Respond(req, status) ==
    http' = [n |-> http.n + 1, method |-> req.method, path |-> req.path,
             query |-> req.query, header |-> req.header, status |-> status,
             handler |-> Route(req.method, req.path)]
\* A handler that leaves the server as it is.
Leaves(req, status) ==
    /\ Respond(req, status)
    /\ UNCHANGED <<disk, workspaces, saved, repos>>
\* {name} and {branch} of the path.
NameOf(req) == req.path[3]
BranchOf(req) == req.path[5]

\* The handlers of workspace.rs, and those of them that take a JSON body or a
\* query (web::Json, web::Query), which actix extracts before it calls them.
WorkspaceHandlers ==
    {"list_workspaces", "create_workspace", "delete_workspace", "list_branches",
     "create_branch", "delete_branch", "list_files", "read_file", "save_file",
     "commit_files", "push_branch", "pull_branch", "rebase_branch",
     "change_base_branch", "rename_branch"}
ExtractingHandlers ==
    {"create_workspace", "create_branch", "read_file", "save_file", "commit_files",
     "change_base_branch", "rename_branch"}

\* The JSON body or the query of the request cannot be extracted: the request
\* is answered 400 and the handler is not called.
ExtractorRejects(req) ==
    /\ http.n < RestRequests
    /\ Route(req.method, req.path) \in ExtractingHandlers
    /\ http' = [n |-> http.n + 1, method |-> req.method, path |-> req.path,
                query |-> req.query, header |-> req.header, status |-> 400,
                handler |-> "extractor"]
    /\ UNCHANGED <<disk, workspaces, saved, repos, connVars, regVars, procVars, fscall, creating>>

\* console_log_handler: the message is logged.
ConsoleLogHandler(req) ==
    /\ Serves("console_log_handler", req)
    /\ Leaves(req, 200)
    /\ UNCHANGED <<connVars, regVars, procVars, fscall, creating>>

\* auth::auth_check_handler
AuthCheckHandler(req) ==
    /\ Serves("auth_check_handler", req)
    /\ LET token == ExtractTokenFromRequest(req)
       IN  Leaves(req, IF token = NoToken THEN 400
                       ELSE IF VerifyToken(token) THEN 200 ELSE 401)
    /\ UNCHANGED <<connVars, regVars, procVars, fscall, creating>>

\* Files::new("/", "./static"): GET of a file that is there.
StaticFiles(req) ==
    /\ Serves("files", req)
    /\ Leaves(req, IF req.method # "GET" THEN 405
                   ELSE IF req.path \in StaticPaths THEN 200 ELSE 404)
    /\ UNCHANGED <<connVars, regVars, procVars, fscall, creating>>

\* workspace::list_workspaces
ListWorkspaces(req) ==
    /\ Serves("list_workspaces", req)
    /\ Leaves(req, IF CheckAuth(req) THEN 200 ELSE 401)
    /\ UNCHANGED <<connVars, regVars, procVars, fscall, creating>>

\* A create_workspace that does not look whether the name is taken.
CreateWorkspaceOverwrites(req, body, fail) ==
    /\ Serves("create_workspace", req)
    /\ UNCHANGED <<connVars, regVars, procVars, fscall, creating>>
    /\ LET name == body.name
           made == CreateDirAll(disk, WorkspacePath(name))
           trees == CreateDirAll(made.disk, WorktreesPath(name))
           cloned == WithDir(trees.disk, RepoPath(name))
           added == [workspaces EXCEPT
                       ![name] = WorkspaceConfig(body.repo_url, body.base_branch)]
       IN  IF ~CheckAuth(req) THEN Leaves(req, 401)
           ELSE IF fail = "create_dir_all" \/ ~made.ok THEN Leaves(req, 500)
           ELSE IF fail = "create_dir_all worktrees" \/ ~trees.ok
           THEN /\ Respond(req, 500)
                /\ disk' = made.disk
                /\ UNCHANGED <<workspaces, saved, repos>>
           ELSE IF fail = "clone" \/ Exists(trees.disk, RepoPath(name))
           THEN /\ Respond(req, 500)
                /\ disk' = RemoveDirAll(trees.disk, WorkspacePath(name))
                /\ repos' = WithoutRepo(repos, name)
                /\ UNCHANGED <<workspaces, saved>>
           ELSE IF fail = "save"
           THEN /\ Respond(req, 500)
                /\ workspaces' = added
                /\ disk' = RemoveDirAll(cloned, WorkspacePath(name))
                /\ repos' = WithoutRepo(repos, name)
                /\ UNCHANGED saved
           ELSE /\ Respond(req, 201)
                /\ workspaces' = added
                /\ saved' = added
                /\ disk' = cloned
                /\ repos' = repos \cup {Did(name, "-", "clone")}

\* workspace::create_workspace; fail is the step that fails: making the
\* workspace directory, making the worktrees directory, the clone, or saving
\* the config file.
CreateWorkspace(req, body, fail) ==
    /\ Serves("create_workspace", req)
    /\ UNCHANGED <<connVars, regVars, procVars, fscall, creating>>
    /\ LET name == body.name
           made == CreateDirAll(disk, WorkspacePath(name))
           trees == CreateDirAll(made.disk, WorktreesPath(name))
           cloned == WithDir(trees.disk, RepoPath(name))
           added == [workspaces EXCEPT
                       ![name] = WorkspaceConfig(body.repo_url, body.base_branch)]
       IN  IF ~CheckAuth(req) THEN Leaves(req, 401)
           ELSE IF workspaces[name] # NoWorkspace THEN Leaves(req, 409)
           ELSE IF fail = "create_dir_all" \/ ~made.ok THEN Leaves(req, 500)
           ELSE IF fail = "create_dir_all worktrees" \/ ~trees.ok
           THEN /\ Respond(req, 500)
                /\ disk' = made.disk
                /\ UNCHANGED <<workspaces, saved, repos>>
           ELSE IF fail = "clone" \/ Exists(trees.disk, RepoPath(name))
           THEN /\ Respond(req, 500)
                /\ disk' = RemoveDirAll(trees.disk, WorkspacePath(name))
                /\ repos' = WithoutRepo(repos, name)
                /\ UNCHANGED <<workspaces, saved>>
           ELSE IF fail = "save"
           THEN /\ Respond(req, 500)
                /\ workspaces' = added
                /\ disk' = RemoveDirAll(cloned, WorkspacePath(name))
                /\ repos' = WithoutRepo(repos, name)
                /\ UNCHANGED saved
           ELSE /\ Respond(req, 201)
                /\ workspaces' = added
                /\ saved' = added
                /\ disk' = cloned
                /\ repos' = repos \cup {Did(name, "-", "clone")}

\* workspace::delete_workspace; fail: remove_dir_all, or saving the config file.
DeleteWorkspace(req, fail) ==
    /\ Serves("delete_workspace", req)
    /\ UNCHANGED <<connVars, regVars, procVars, fscall, creating>>
    /\ LET name == NameOf(req)
           removed == [workspaces EXCEPT ![name] = NoWorkspace]
       IN  IF ~CheckAuth(req) THEN Leaves(req, 401)
           ELSE IF workspaces[name] = NoWorkspace THEN Leaves(req, 404)
           ELSE IF fail = "remove_dir_all" \/ ~Exists(disk, WorkspacePath(name))
           THEN Leaves(req, 500)
           ELSE /\ disk' = RemoveDirAll(disk, WorkspacePath(name))
                /\ repos' = WithoutRepo(repos, name)
                /\ workspaces' = removed
                /\ IF fail = "save"
                   THEN Respond(req, 500) /\ UNCHANGED saved
                   ELSE Respond(req, 200) /\ saved' = removed

\* workspace::list_branches; ok: git branch succeeds.
ListBranches(req, ok) ==
    /\ Serves("list_branches", req)
    /\ UNCHANGED <<connVars, regVars, procVars, fscall, creating>>
    /\ IF ~CheckAuth(req) THEN Leaves(req, 401)
       ELSE IF workspaces[NameOf(req)] = NoWorkspace THEN Leaves(req, 404)
       ELSE IF ~ok \/ ~Exists(disk, RepoPath(NameOf(req))) THEN Leaves(req, 500)
       ELSE Leaves(req, 200)

\* workspace::create_branch; ok: git worktree add succeeds.
CreateBranch(req, body, ok) ==
    /\ Serves("create_branch", req)
    /\ UNCHANGED <<connVars, regVars, procVars, fscall, creating>>
    /\ LET workspace == NameOf(req)
           worktree_path == WorktreePath(workspace, body.branch_name)
       IN  IF ~CheckAuth(req) THEN Leaves(req, 401)
           ELSE IF workspaces[workspace] = NoWorkspace THEN Leaves(req, 404)
           ELSE IF \/ ~ok
                   \/ ~Exists(disk, RepoPath(workspace))
                   \/ Exists(disk, worktree_path)
           THEN Leaves(req, 500)
           ELSE /\ Respond(req, 201)
                /\ disk' = CreateDirAll(disk, worktree_path).disk
                /\ repos' = repos \cup {Did(workspace, body.branch_name, "worktree")}
                /\ UNCHANGED <<workspaces, saved>>

\* workspace::delete_branch; fail: "git" when git worktree remove fails and
\* the directory is removed by hand, "remove_dir_all" when that fails too.
DeleteBranch(req, fail) ==
    /\ Serves("delete_branch", req)
    /\ UNCHANGED <<connVars, regVars, procVars, fscall, creating>>
    /\ LET workspace == NameOf(req)
           branch == BranchOf(req)
           worktree_path == WorktreePath(workspace, branch)
       IN  IF ~CheckAuth(req) THEN Leaves(req, 401)
           ELSE IF workspaces[workspace] = NoWorkspace THEN Leaves(req, 404)
           ELSE IF fail = "remove_dir_all" /\ Exists(disk, worktree_path)
           THEN Leaves(req, 500)
           ELSE /\ Respond(req, 200)
                /\ disk' = RemoveDirAll(disk, worktree_path)
                /\ repos' = repos \ {Did(workspace, branch, "worktree")}
                /\ UNCHANGED <<workspaces, saved>>

\* What the branch handlers answer before they act: 401, 404 for a workspace
\* or a worktree that is not there, 0 to go on.
Refused(req) ==
    IF ~CheckAuth(req) THEN 401
    ELSE IF workspaces[NameOf(req)] = NoWorkspace THEN 404
    ELSE IF ~Exists(disk, WorktreePath(NameOf(req), BranchOf(req))) THEN 404
    ELSE 0

\* workspace::list_files; ok: read_dir succeeds.
WorkspaceListFiles(req, ok) ==
    /\ Serves("list_files", req)
    /\ UNCHANGED <<connVars, regVars, procVars, fscall, creating>>
    /\ IF Refused(req) # 0 THEN Leaves(req, Refused(req))
       ELSE Leaves(req, IF ok THEN 200 ELSE 500)

\* workspace::read_file
WorkspaceReadFile(req, file) ==
    /\ Serves("read_file", req)
    /\ UNCHANGED <<connVars, regVars, procVars, fscall, creating>>
    /\ LET read == ReadFile(disk, WorktreePath(NameOf(req), BranchOf(req)), file)
       IN  IF Refused(req) # 0 THEN Leaves(req, Refused(req))
           ELSE Leaves(req, IF read.result = "Ok" THEN 200 ELSE 404)

\* workspace::save_file
SaveFile(req, file, content) ==
    /\ Serves("save_file", req)
    /\ UNCHANGED <<connVars, regVars, procVars, fscall, creating>>
    /\ LET written == WriteFile(disk, WorktreePath(NameOf(req), BranchOf(req)), file, content)
       IN  IF Refused(req) # 0 THEN Leaves(req, Refused(req))
           ELSE /\ Respond(req, IF written.result = "Ok" THEN 200 ELSE 500)
                /\ disk' = written.disk
                /\ UNCHANGED <<workspaces, saved, repos>>

\* A git command run in a worktree: what it leaves when it succeeds.
GitIn(req, ok, what) ==
    /\ Respond(req, IF ok THEN 200 ELSE 500)
    /\ repos' = IF ok THEN repos \cup {Did(NameOf(req), BranchOf(req), what)} ELSE repos
    /\ UNCHANGED <<disk, workspaces, saved>>

\* workspace::commit_files; fail: git add, or git commit after the add.
CommitFiles(req, fail) ==
    /\ Serves("commit_files", req)
    /\ UNCHANGED <<connVars, regVars, procVars, fscall, creating>>
    /\ IF Refused(req) # 0 THEN Leaves(req, Refused(req))
       ELSE IF fail = "add" THEN Leaves(req, 500)
       ELSE GitIn(req, fail # "commit", IF fail = "commit" THEN "add" ELSE "commit")

\* workspace::push_branch; ok: git push succeeds.
PushBranch(req, ok) ==
    /\ Serves("push_branch", req)
    /\ UNCHANGED <<connVars, regVars, procVars, fscall, creating>>
    /\ IF Refused(req) # 0 THEN Leaves(req, Refused(req)) ELSE GitIn(req, ok, "push")

\* workspace::pull_branch; ok: git fetch and git pull succeed.
PullBranch(req, ok) ==
    /\ Serves("pull_branch", req)
    /\ UNCHANGED <<connVars, regVars, procVars, fscall, creating>>
    /\ IF Refused(req) # 0 THEN Leaves(req, Refused(req)) ELSE GitIn(req, ok, "pull")

\* workspace::rebase_branch; ok: git fetch and git rebase succeed.
RebaseBranch(req, ok) ==
    /\ Serves("rebase_branch", req)
    /\ UNCHANGED <<connVars, regVars, procVars, fscall, creating>>
    /\ IF Refused(req) # 0 THEN Leaves(req, Refused(req)) ELSE GitIn(req, ok, "rebase")

\* workspace::change_base_branch; ok: the config file is saved.
ChangeBaseBranch(req, body, ok) ==
    /\ Serves("change_base_branch", req)
    /\ UNCHANGED <<connVars, regVars, procVars, fscall, creating>>
    /\ LET workspace == NameOf(req)
           updated == [workspaces EXCEPT ![workspace].base_branch = body.new_base_branch]
       IN  IF ~CheckAuth(req) THEN Leaves(req, 401)
           ELSE IF workspaces[workspace] = NoWorkspace THEN Leaves(req, 404)
           ELSE /\ workspaces' = updated
                /\ IF ok
                   THEN Respond(req, 200) /\ saved' = updated
                   ELSE Respond(req, 500) /\ UNCHANGED saved
                /\ UNCHANGED <<disk, repos>>

\* workspace::rename_branch; ok: git branch -m succeeds.
RenameBranch(req, body, ok) ==
    /\ Serves("rename_branch", req)
    /\ UNCHANGED <<connVars, regVars, procVars, fscall, creating>>
    /\ IF Refused(req) # 0 THEN Leaves(req, Refused(req))
       ELSE GitIn(req, ok, "rename")

(* ------------- create_workspace, step by step on a worker ------------- *)
\* Worker k goes on to pc; status is the response once it is "done".
Goes(k, pc, status) ==
    creating' = [creating EXCEPT ![k].pc = pc, ![k].status = status]

\* workspace::create_workspace is called on worker k for a request that
\* carries the secret: check_auth passes, and get_workspace(name) decides
\* between 409 and going on.
CwBegin(k, body) ==
    /\ creating[k].pc = "idle"
    /\ creating' = [creating EXCEPT ![k] =
          [pc |-> IF workspaces[body.name] # NoWorkspace THEN "done" ELSE "create_dir",
           name |-> body.name, repo_url |-> body.repo_url, base_branch |-> body.base_branch,
           status |-> IF workspaces[body.name] # NoWorkspace THEN 409 ELSE 0]]
    /\ UNCHANGED <<connVars, regVars, procVars, fscall, http, disk, workspaces, saved, repos>>

\* std::fs::create_dir_all(&workspace_path)
CwCreateDir(k, ok) ==
    /\ creating[k].pc = "create_dir"
    /\ LET made == CreateDirAll(disk, WorkspacePath(creating[k].name))
       IN  IF ok /\ made.ok
           THEN disk' = made.disk /\ Goes(k, "create_worktrees", 0)
           ELSE UNCHANGED disk /\ Goes(k, "done", 500)
    /\ UNCHANGED <<connVars, regVars, procVars, fscall, http, workspaces, saved, repos>>

\* std::fs::create_dir_all(&worktrees_path)
CwCreateWorktrees(k, ok) ==
    /\ creating[k].pc = "create_worktrees"
    /\ LET made == CreateDirAll(disk, WorktreesPath(creating[k].name))
       IN  IF ok /\ made.ok
           THEN disk' = made.disk /\ Goes(k, "clone", 0)
           ELSE UNCHANGED disk /\ Goes(k, "done", 500)
    /\ UNCHANGED <<connVars, regVars, procVars, fscall, http, workspaces, saved, repos>>

\* git_ops::clone_repo: git clone --bare makes the repository directory, with
\* the directories above it, and fails where the repository is there already.
CwClone(k, ok) ==
    /\ creating[k].pc = "clone"
    /\ IF ok /\ ~Exists(disk, RepoPath(creating[k].name))
       THEN /\ disk' = CreateDirAll(disk, RepoPath(creating[k].name)).disk
            /\ repos' = repos \cup {Did(creating[k].name, "-", "clone")}
            /\ Goes(k, "add", 0)
       ELSE /\ UNCHANGED <<disk, repos>>
            /\ Goes(k, "cleanup", 0)
    /\ UNCHANGED <<connVars, regVars, procVars, fscall, http, workspaces, saved>>

\* let _ = std::fs::remove_dir_all(&workspace_path), and the 500 after it.
CwCleanup(k) ==
    /\ creating[k].pc = "cleanup"
    /\ disk' = RemoveDirAll(disk, WorkspacePath(creating[k].name))
    /\ repos' = WithoutRepo(repos, creating[k].name)
    /\ Goes(k, "done", 500)
    /\ UNCHANGED <<connVars, regVars, procVars, fscall, http, workspaces, saved>>

\* ConfigManager::add_workspace: the insert under the write lock.
CwAdd(k) ==
    /\ creating[k].pc = "add"
    /\ workspaces' = [workspaces EXCEPT ![creating[k].name] =
                         WorkspaceConfig(creating[k].repo_url, creating[k].base_branch)]
    /\ Goes(k, "save", 0)
    /\ UNCHANGED <<connVars, regVars, procVars, fscall, http, disk, saved, repos>>

\* ConfigManager::save: the map as it is now is written to the config file,
\* or the write fails; then 201, or the cleanup.
CwSave(k, ok) ==
    /\ creating[k].pc = "save"
    /\ IF ok
       THEN saved' = workspaces /\ Goes(k, "done", 201)
       ELSE UNCHANGED saved /\ Goes(k, "cleanup", 0)
    /\ UNCHANGED <<connVars, regVars, procVars, fscall, http, disk, workspaces, repos>>

(* ------------------------------ the system ----------------------------- *)
\* The frames a client sends on the connections C, while fewer than F were
\* taken and, for a `create` that spawns, fewer than P sessions were spawned.
\* The shells are silent.
Inbound(C, F, P) ==
    \/ \E c \in C, idopt \in ClientIds \cup {NoId}, ok \in BOOLEAN :
         /\ FramesTaken < F
         /\ ok => nextProc <= P
         /\ RecvCreate(c, idopt, ok, <<>>)
    \/ \E c \in C, id \in KnownIds, blocks \in BOOLEAN :
         FramesTaken < F /\ RecvInput(c, id, blocks)
    \/ \E c \in C, id \in KnownIds, dims \in ResizeDims, ok \in BOOLEAN :
         FramesTaken < F /\ RecvResize(c, id, dims, ok)
    \/ \E c \in C, id \in KnownIds : FramesTaken < F /\ RecvClose(c, id)
    \/ \E c \in C : FramesTaken < F /\ RecvIgnored(c)

\* The handler, and the steps of the receiver task that follow a frame.
Dispatch(C) ==
    \/ \E c \in C : Connect(c)
    \/ \E c \in C : CreateInsert(c)
    \/ \E c \in C : CreatedReply(c)
    \/ \E c \in C : ErrorReply(c)
    \/ \E c \in C : WriteReturn(c)
    \/ \E c \in C : ClosedReply(c)
    \/ \E c \in C : RecvEnd(c)

\* Shells exiting, peers going away, tasks running out of work.
Lifecycle(C) ==
    \/ \E c \in C : TransportFail(c)
    \/ \E c \in C : RelayEnd(c)
    \/ \E p \in Procs : ReaderEof(p)
    \/ \E p \in Procs : ProcExit(p)

\* One connection, every kind of frame, silent shells.
Next == Inbound({"c1"}, MaxFrames, MaxProcs) \/ Dispatch({"c1"}) \/ Lifecycle({"c1"})

Spec == Init /\ [][Next]_vars

\* Two connections on the one session map.
SharedNext == Inbound(Conns, SharedFrames, MaxProcs) \/ Dispatch(Conns) \/ Lifecycle(Conns)

SharedSpec == Init /\ [][SharedNext]_vars

\* The output path: `create` frames on one connection, shells that write and
\* do not exit, the reader threads and the sender task.
OutputNext ==
    \/ /\ nextProc <= OutProcs
       /\ RecvCreate("c1", NoId, TRUE, ShellOutput(OutBytes))
    \/ \E p \in Procs : \E n \in 1..Unread(p) : BytesRead < OutBytes /\ ReaderRead(p, n)
    \/ Connect("c1")
    \/ CreateInsert("c1")
    \/ CreatedReply("c1")
    \/ RecvEnd("c1")
    \/ RelaySend("c1")
    \/ TransportFail("c1")

OutputSpec == Init /\ [][OutputNext]_vars

\* The input path: `create` and `input` frames on two connections.
InputNext ==
    \/ \E c \in Conns, idopt \in ClientIds \cup {NoId} :
         /\ FramesTaken < InFrames
         /\ nextProc <= InProcs
         /\ RecvCreate(c, idopt, TRUE, <<>>)
    \/ \E c \in Conns, id \in KnownIds, blocks \in BOOLEAN :
         FramesTaken < InFrames /\ RecvInput(c, id, blocks)
    \/ \E c \in Conns : Connect(c)
    \/ \E c \in Conns : CreateInsert(c)
    \/ \E c \in Conns : CreatedReply(c)
    \/ \E c \in Conns : WriteReturn(c)
    \/ \E p \in Procs : ProcExit(p)

InputSpec == Init /\ [][InputNext]_vars
\* The read loop alone: one session whose shell writes any bytes of ByteSet, read
\* in chunks of any size.
LossyInit ==
    /\ dpc = [c \in Conns |-> IF c = "c1" THEN "recv" ELSE "none"]
    /\ dcur = [c \in Conns |-> NoCur]
    /\ nin = [c \in Conns |-> IF c = "c1" THEN 1 ELSE 0]
    /\ relay = [c \in Conns |-> IF c = "c1" THEN "running" ELSE "none"]
    /\ transport = [c \in Conns |-> IF c = "c1" THEN "open" ELSE "none"]
    /\ outq = [c \in Conns |-> <<>>]
    /\ wire = [c \in Conns |-> IF c = "c1" THEN <<Created(UuidNames[1], 1)>> ELSE <<>>]
    /\ sessions = [i \in Ids |-> IF i = UuidNames[1] THEN 1 ELSE 0]
    /\ lock = "-"
    /\ nextProc = 2
    /\ nextUuid = 2
    /\ palive = [p \in Procs |-> p = 1]
    /\ powner = [p \in Procs |-> IF p = 1 THEN "c1" ELSE "-"]
    /\ psid = [p \in Procs |-> IF p = 1 THEN UuidNames[1] ELSE NoId]
    /\ rpc = [p \in Procs |-> IF p = 1 THEN "reading" ELSE "none"]
    /\ \E bs \in UNION {[1..n -> ByteSet] : n \in 0..MaxBytes} :
         emitted = [p \in Procs |-> IF p = 1 THEN bs ELSE <<>>]
    /\ nread = [p \in Procs |-> 0]
    /\ stdin = [p \in Procs |-> <<>>]
    /\ geom = [p \in Procs |-> IF p = 1 THEN <<DefaultCols, DefaultRows>> ELSE <<0, 0>>]
    /\ released = [p \in Procs |-> FALSE]
    /\ request = [c \in Conns |-> IF c = "c1" THEN ClientRequest ELSE NoRequest]
    /\ IdleServer

LossyNext ==
    \/ \E n \in 1..Unread(1) : ReaderRead(1, n)
    \/ RelaySend("c1")

LossySpec == LossyInit /\ [][LossyNext]_vars

\* The connection request: any request on one connection, then the frames of
\* that connection.
AuthNext ==
    \/ dpc["c1"] = "none" /\ \E req \in Requests : WsHandler("c1", req)
    \/ Inbound({"c1"}, AuthFrames, AuthProcs)
    \/ Dispatch({"c1"})
    \/ Lifecycle({"c1"})

AuthSpec == Init /\ [][AuthNext]_vars

\* The life of one id: `create`, `input`, `resize` and `close` frames that
\* name the client's id, on two connections.
ReuseNext ==
    \/ \E c \in Conns, id \in ClientIds :
         /\ FramesTaken < ReuseFrames
         /\ nextProc <= ReuseProcs
         /\ RecvCreate(c, id, TRUE, <<>>)
    \/ \E c \in Conns, id \in ClientIds, blocks \in BOOLEAN :
         FramesTaken < ReuseFrames /\ RecvInput(c, id, blocks)
    \/ \E c \in Conns, id \in ClientIds, dims \in ResizeDims, ok \in BOOLEAN :
         FramesTaken < ReuseFrames /\ RecvResize(c, id, dims, ok)
    \/ \E c \in Conns, id \in ClientIds : FramesTaken < ReuseFrames /\ RecvClose(c, id)
    \/ \E c \in Conns : Connect(c)
    \/ \E c \in Conns : CreateInsert(c)
    \/ \E c \in Conns : CreatedReply(c)
    \/ \E c \in Conns : WriteReturn(c)
    \/ \E c \in Conns : ClosedReply(c)

ReuseSpec == Init /\ [][ReuseNext]_vars

\* Delivery of the output: `create` frames on one connection, shells that
\* write LiveBytes bytes each and do not exit, an inbound stream that may end
\* and a WebSocket that may fail.
LiveNext ==
    \/ /\ nextProc <= LiveProcs
       /\ RecvCreate("c1", NoId, TRUE, ShellOutput(LiveBytes))
    \/ \E p \in Procs : \E n \in 1..Unread(p) : ReaderRead(p, n)
    \/ Connect("c1")
    \/ CreateInsert("c1")
    \/ CreatedReply("c1")
    \/ RecvEnd("c1")
    \/ RelaySend("c1")
    \/ TransportFail("c1")

\* The reader threads are threads of their own and the sender task is woken
\* whenever the channel holds a frame: each takes its step when it stays able to.
LiveFairness ==
    /\ \A p \in 1..LiveProcs : WF_vars(\E n \in 1..Unread(p) : ReaderRead(p, n))
    /\ WF_vars(RelaySend("c1"))

LiveSpec == Init /\ [][LiveNext]_vars /\ LiveFairness

\* The file store alone: a base and a path of up to MaxPath characters, a
\* disk, and the four functions called with them in any order.
FileInit ==
    /\ IdleGateway
    /\ disk \in {InitDisk, UsedDisk}
    /\ fscall \in {[NoCall EXCEPT !.base = b, !.path = p] : b \in Bases, p \in PathStrings}
    /\ workspaces = [w \in WsNames |-> NoWorkspace]
    /\ saved = [w \in WsNames |-> NoWorkspace]
    /\ repos = {}
    /\ http = NoHttp
    /\ creating = [k \in Workers |-> NotCreating]

FileNext ==
    \/ CallReadFile
    \/ CallWriteFile(NewText)
    \/ \E content \in {NoContent, NewText} : CallCreateFile(content)
    \/ CallDeleteFile

FileSpec == FileInit /\ [][FileNext]_vars

\* The bodies of the requests.
CreateWorkspaceRequests ==
    [name : WsNames, repo_url : {RepoUrl}, base_branch : BaseBranches]
CreateBranchRequests == [branch_name : BranchNames]
ChangeBaseBranchRequests == [new_base_branch : BaseBranches]
RenameBranchRequests == [new_name : {NewBranchName}]

\* What can go wrong while a request is handled: a request that is turned away
\* at the token check runs nothing that could fail.
Outcomes(req, all) == IF CheckAuth(req) THEN all ELSE {CHOOSE o \in all : TRUE}

\* The HTTP server: up to RestRequests requests, one after the other, with any
\* token, to every route, and with every method to the paths of OtherPaths.
RestNext ==
    \/ \E req \in RequestsTo("POST", {<<"api", "console">>}) : ConsoleLogHandler(req)
    \/ \E req \in RequestsTo("GET", {<<"api", "auth", "check">>}) : AuthCheckHandler(req)
    \/ \E method \in Methods : \E req \in RequestsTo(method, OtherPaths) : StaticFiles(req)
    \/ \E req \in RequestsTo("GET", {<<"api", "workspaces">>}) : ListWorkspaces(req)
    \/ \E req \in RequestsTo("POST", {<<"api", "workspaces">>}) :
         \E body \in Outcomes(req, CreateWorkspaceRequests) :
           \E fail \in Outcomes(req, {"none", "create_dir_all", "create_dir_all worktrees",
                                      "clone", "save"}) :
             CreateWorkspace(req, body, fail)
    \/ \E req \in RequestsTo("DELETE", WorkspacePaths) :
         \E fail \in Outcomes(req, {"none", "remove_dir_all", "save"}) :
           DeleteWorkspace(req, fail)
    \/ \E req \in RequestsTo("GET", BranchesPaths) :
         \E ok \in Outcomes(req, BOOLEAN) : ListBranches(req, ok)
    \/ \E req \in RequestsTo("POST", BranchesPaths) :
         \E body \in CreateBranchRequests, ok \in Outcomes(req, BOOLEAN) :
           CreateBranch(req, body, ok)
    \/ \E req \in RequestsTo("DELETE", BranchPaths) :
         \E fail \in Outcomes(req, {"none", "git", "remove_dir_all"}) : DeleteBranch(req, fail)
    \/ \E req \in RequestsTo("GET", BranchOpPaths("files")) :
         \E ok \in Outcomes(req, BOOLEAN) : WorkspaceListFiles(req, ok)
    \/ \E req \in RequestsTo("GET", BranchOpPaths("file")) :
         \E file \in Outcomes(req, FilePaths) : WorkspaceReadFile(req, file)
    \/ \E req \in RequestsTo("PUT", BranchOpPaths("file")) :
         \E file \in Outcomes(req, FilePaths) : SaveFile(req, file, NewText)
    \/ \E req \in RequestsTo("POST", BranchOpPaths("commit")) :
         \E fail \in Outcomes(req, {"none", "add", "commit"}) : CommitFiles(req, fail)
    \/ \E req \in RequestsTo("POST", BranchOpPaths("push")) :
         \E ok \in Outcomes(req, BOOLEAN) : PushBranch(req, ok)
    \/ \E req \in RequestsTo("POST", BranchOpPaths("pull")) :
         \E ok \in Outcomes(req, BOOLEAN) : PullBranch(req, ok)
    \/ \E req \in RequestsTo("POST", BranchOpPaths("rebase")) :
         \E ok \in Outcomes(req, BOOLEAN) : RebaseBranch(req, ok)
    \/ \E req \in RequestsTo("POST", BranchOpPaths("checkout")) :
         \E body \in Outcomes(req, ChangeBaseBranchRequests), ok \in Outcomes(req, BOOLEAN) :
           ChangeBaseBranch(req, body, ok)
    \/ \E req \in RequestsTo("POST", BranchOpPaths("rename")) :
         \E body \in RenameBranchRequests, ok \in Outcomes(req, BOOLEAN) :
           RenameBranch(req, body, ok)
    \/ \E req \in RequestsTo("POST", {<<"api", "workspaces">>} \cup BranchesPaths)
                  \cup RequestsTo("PUT", BranchOpPaths("file"))
                  \cup RequestsTo("GET", BranchOpPaths("file")) :
         ExtractorRejects(req)

\* ConfigManager::new: the server starts with no config file, or with the
\* config file and the workspace directory an earlier run left: a workspace
\* with one worktree.
LoadedDisk ==
    [p \in {<<>>, WorkspaceDir} \cup
           {WorkspacePath(w) : w \in WsNames} \cup {RepoPath(w) : w \in WsNames} \cup
           {WorktreesPath(w) : w \in WsNames} \cup
           {WorktreePath(w, b) : w \in WsNames, b \in BranchNames} |-> Dir]
RestInit ==
    /\ IdleGateway
    /\ fscall = NoCall
    /\ http = NoHttp
    /\ creating = [k \in Workers |-> NotCreating]
    /\ \/ /\ disk = InitDisk
          /\ workspaces = [w \in WsNames |-> NoWorkspace]
          /\ saved = [w \in WsNames |-> NoWorkspace]
          /\ repos = {}
       \/ /\ disk = LoadedDisk
          /\ workspaces = [w \in WsNames |-> WorkspaceConfig(RepoUrl, "main")]
          /\ saved = [w \in WsNames |-> WorkspaceConfig(RepoUrl, "main")]
          /\ repos = {Did(w, "-", "clone") : w \in WsNames}
                     \cup {Did(w, b, "worktree") : w \in WsNames, b \in BranchNames}

RestSpec == RestInit /\ [][RestNext]_vars

\* Both directions at once: `create` and `input` frames on two connections,
\* shells that write DuplexBytes bytes each, the reader threads and the
\* sender tasks.
DuplexNext ==
    \/ \E c \in Conns, idopt \in ClientIds \cup {NoId} :
         /\ FramesTaken < DuplexFrames
         /\ nextProc <= DuplexProcs
         /\ RecvCreate(c, idopt, TRUE, ShellOutput(DuplexBytes))
    \/ \E c \in Conns, id \in KnownIds, blocks \in BOOLEAN :
         FramesTaken < DuplexFrames /\ RecvInput(c, id, blocks)
    \/ \E p \in Procs : \E n \in 1..Unread(p) : ReaderRead(p, n)
    \/ \E c \in Conns : Connect(c)
    \/ \E c \in Conns : CreateInsert(c)
    \/ \E c \in Conns : CreatedReply(c)
    \/ \E c \in Conns : WriteReturn(c)
    \/ \E c \in Conns : RelaySend(c)

DuplexSpec == Init /\ [][DuplexNext]_vars

\* Geometry: one connection, `create`, `resize`, `input` and `close` frames for
\* two sessions, `resize` frames of two sizes that the terminal accepts or not.
GeomNext ==
    \/ \E idopt \in ClientIds \cup {NoId} :
         /\ FramesTaken < GeomFrames
         /\ nextProc <= GeomProcs
         /\ RecvCreate("c1", idopt, TRUE, <<>>)
    \/ \E id \in KnownIds, dims \in GeomDims, ok \in BOOLEAN :
         FramesTaken < GeomFrames /\ RecvResize("c1", id, dims, ok)
    \/ \E id \in KnownIds, blocks \in BOOLEAN :
         FramesTaken < GeomFrames /\ RecvInput("c1", id, blocks)
    \/ \E id \in KnownIds : FramesTaken < GeomFrames /\ RecvClose("c1", id)
    \/ Connect("c1")
    \/ CreateInsert("c1")
    \/ CreatedReply("c1")
    \/ WriteReturn("c1")
    \/ ClosedReply("c1")

GeomSpec == Init /\ [][GeomNext]_vars

\* Closing sessions that have output: one connection, `create` and `close`
\* frames for one id, shells that write DrainBytes bytes, the reader threads
\* and the sender task.
DrainNext ==
    \/ \E id \in ClientIds :
         FramesTaken < DrainFrames /\ RecvCreate("c1", id, TRUE, ShellOutput(DrainBytes))
    \/ \E id \in ClientIds : FramesTaken < DrainFrames /\ RecvClose("c1", id)
    \/ \E p \in Procs : \E n \in 1..Unread(p) : ReaderRead(p, n)
    \/ \E p \in Procs : ProcExit(p)
    \/ \E p \in Procs : ReaderEof(p)
    \/ Connect("c1")
    \/ CreateInsert("c1")
    \/ CreatedReply("c1")
    \/ ClosedReply("c1")
    \/ RelaySend("c1")

DrainSpec == Init /\ [][DrainNext]_vars

\* After the disconnect: one connection whose inbound stream may end and
\* whose WebSocket may fail, sessions whose shells write LiveBytes bytes and
\* exit or not, the reader threads and the sender task up to their ends.
LeakNext ==
    \/ /\ nextProc <= LiveProcs
       /\ RecvCreate("c1", NoId, TRUE, ShellOutput(LiveBytes))
    \/ \E p \in Procs : \E n \in 1..Unread(p) : ReaderRead(p, n)
    \/ \E p \in Procs : ReaderEof(p)
    \/ \E p \in Procs : ProcExit(p)
    \/ Connect("c1")
    \/ CreateInsert("c1")
    \/ CreatedReply("c1")
    \/ RecvEnd("c1")
    \/ RelaySend("c1")
    \/ RelayEnd("c1")
    \/ TransportFail("c1")

\* Every task and thread that can take a step takes it; a shell need not
\* exit and a client need not go away.
LeakFairness ==
    /\ \A p \in 1..LiveProcs : WF_vars(\E n \in 1..Unread(p) : ReaderRead(p, n))
    /\ \A p \in 1..LiveProcs : WF_vars(ReaderEof(p))
    /\ WF_vars(CreateInsert("c1"))
    /\ WF_vars(CreatedReply("c1"))
    /\ WF_vars(RelaySend("c1"))
    /\ WF_vars(RelayEnd("c1"))

LeakSpec == Init /\ [][LeakNext]_vars /\ LeakFairness

\* create_workspace on two worker threads at once, one request each, with
\* every step able to fail.
RaceNext ==
    \/ \E k \in Workers, body \in CreateWorkspaceRequests : CwBegin(k, body)
    \/ \E k \in Workers, ok \in BOOLEAN : CwCreateDir(k, ok)
    \/ \E k \in Workers, ok \in BOOLEAN : CwCreateWorktrees(k, ok)
    \/ \E k \in Workers, ok \in BOOLEAN : CwClone(k, ok)
    \/ \E k \in Workers : CwCleanup(k)
    \/ \E k \in Workers : CwAdd(k)
    \/ \E k \in Workers, ok \in BOOLEAN : CwSave(k, ok)

RaceSpec == Init /\ [][RaceNext]_vars

(* ============================== claims ================================= *)
\* The sessions of connection c that the session map still holds.
Registered(p) == psid[p] # NoId /\ sessions[psid[p]] = p
OwnedRegistered(c) == {p \in Procs : powner[p] = c /\ Registered(p)}
\* How many frames of one type carry the id on the WebSocket of c.
CountOf(c, type, id) ==
    Len(SelectSeq(wire[c], LAMBDA f : f.type = type /\ f.session_id = id))
\* Every task of connection c has ended: receiver, sender and reader threads.
Quiescent(c) ==
    /\ dpc[c] = "ended"
    /\ relay[c] \in {"ended", "failed"}
    /\ \A p \in Procs : powner[p] = c => rpc[p] = "ended"

\* C1: on one connection no two `created` frames carry the same session id
\* unless a `closed` for that id was written between them.
C1_CreatedIdsUnique ==
    \A c \in Conns : \A i, j \in 1..Len(wire[c]) :
        (/\ i < j
         /\ wire[c][i].type = "created"
         /\ wire[c][j].type = "created"
         /\ wire[c][i].session_id = wire[c][j].session_id)
        => \E k \in (i + 1)..(j - 1) : wire[c][k] = Closed(wire[c][i].session_id)

\* C2: registering a session under an id the session map already holds fails:
\* the map is left as it was and the `create` is answered with `error`.
C2_RegisterRejectsCollision ==
    [][\A c \in Conns :
          (dpc[c] = "insert" /\ sessions[dcur[c].sid] # 0 /\ dpc'[c] # "insert")
          => (sessions' = sessions /\ dpc'[c] = "error_reply")]_vars

\* C3: a session created once on a connection gets exactly one `closed` frame,
\* however many `close` frames name it (each `close` taken writes its reply, so
\* one or more of them must leave one `closed` on the WebSocket, not more).
C3_CloseEmitsOneClosed ==
    \A c \in Conns : \A id \in Ids :
        CountOf(c, "created", id) = 1 => CountOf(c, "closed", id) <= 1

\* The frames handed to connection c so far that are still to be seen or were
\* written: the WebSocket, then the channel.
Handed(c) == wire[c] \o outq[c]
FramesOf(q) == {q[i] : i \in 1..Len(q)}

\* C4: when the shell of a session that was answered with `created` ends on its
\* own and its read loop has seen end-of-stream or a read error, the session is
\* out of the session map and a `closed` for it was handed to its connection.
C4_ShellExitClosesSession ==
    \A p \in Procs :
        (/\ rpc[p] = "ended"
         /\ relay[powner[p]] # "failed"
         /\ Created(psid[p], p) \in FramesOf(wire[powner[p]]))
        => /\ ~Registered(p)
           /\ Closed(psid[p]) \in FramesOf(Handed(powner[p]))

\* C5: once a connection has dropped and its teardown is over (all its tasks
\* have ended), the session map holds none of its sessions.
C5_DropEmptiesRegistry ==
    \A c \in Conns : Quiescent(c) => OwnedRegistered(c) = {}
\* C6: once the sender task has stopped on a failed write and the teardown it
\* triggers is over (the connection's other tasks have ended too), the session
\* map holds none of the connection's sessions.
C6_WriteFailureTearsDown ==
    \A c \in Conns :
        (/\ relay[c] = "failed"
         /\ dpc[c] = "ended"
         /\ \A p \in Procs : powner[p] = c => rpc[p] = "ended")
        => OwnedRegistered(c) = {}

\* C7: while an `input` write to one session is blocked, a receiver task of
\* another connection that awaits its next frame can carry out an `input`,
\* `resize` or `close` for any other registered session.
C7_SessionsIndependent ==
    \A c1, c2 \in Conns : \A b \in Ids :
        (/\ c1 # c2
         /\ dpc[c1] = "write"
         /\ dpc[c2] = "recv"
         /\ sessions[b] # 0
         /\ b # dcur[c1].sid)
        => /\ ENABLED RecvInput(c2, b, FALSE)
           /\ \A dims \in ResizeDims : ENABLED RecvResize(c2, b, dims, TRUE)
           /\ ENABLED RecvClose(c2, b)

\* The data of the `output` frames of process p in a sequence of frames, joined.
RECURSIVE OutputData(_, _)
OutputData(q, p) ==
    IF q = <<>> THEN <<>>
    ELSE (IF Head(q).type = "output" /\ Head(q).proc = p THEN Head(q).data ELSE <<>>)
         \o OutputData(Tail(q), p)

\* C8: the `output` frames of each session are written to the WebSocket in the
\* order its shell wrote the bytes: joined, their data is a prefix of what the
\* shell wrote, however the frames of other sessions fall between them.
C8_OutputInEmissionOrder ==
    \A c \in Conns : \A p \in Procs :
        LET d == OutputData(wire[c], p)
        IN  Len(d) <= Len(emitted[p]) /\ d = SubSeq(emitted[p], 1, Len(d))

\* Two output frames of one session on the WebSocket, one of another between them.
C8_Witness ==
    \E p, q \in Procs : \E i, j, k \in 1..Len(wire["c1"]) :
        /\ p # q /\ i < j /\ j < k
        /\ wire["c1"][i].type = "output" /\ wire["c1"][i].proc = p
        /\ wire["c1"][j].type = "output" /\ wire["c1"][j].proc = q
        /\ wire["c1"][k].type = "output" /\ wire["c1"][k].proc = p

\* C9: what is written to the terminal of a session is the data of `input`
\* frames naming that session only, and the data of two frames of one
\* connection is written in the order the frames were sent.
C9_InputInSendOrder ==
    \A p \in Procs :
        /\ \A i \in 1..Len(stdin[p]) : stdin[p][i].sid = psid[p]
        /\ \A i, j \in 1..Len(stdin[p]) :
              (i < j /\ stdin[p][i].conn = stdin[p][j].conn)
              => stdin[p][i].seq < stdin[p][j].seq

\* Two inputs of one connection written to one session, and between the two an
\* input of that connection written to another session.
C9_Witness ==
    \E p, q \in Procs :
        /\ p # q
        /\ Len(stdin[p]) >= 2
        /\ stdin[p][1].conn = stdin[p][2].conn
        /\ \E k \in 1..Len(stdin[q]) :
              /\ stdin[q][k].conn = stdin[p][1].conn
              /\ stdin[p][1].seq < stdin[q][k].seq
              /\ stdin[q][k].seq < stdin[p][2].seq

\* C10: the data of the `output` frames of a session, joined and taken as
\* bytes, is the bytes read from its terminal, however the reads split them.
C10_OutputLossless ==
    \A p \in Procs :
        powner[p] # "-"
        => AsBytes(OutputData(Handed(powner[p]), p)) = SubSeq(emitted[p], 1, nread[p])

\* C11: a connection request whose token is absent or is not the secret is
\* rejected before the upgrade: its connection has no receiver task, no sender
\* task and no WebSocket, takes no frame and owns no session.
C11_BadTokenRejected ==
    \A c \in Conns :
        (request[c] # NoRequest /\ ExtractTokenFromRequest(request[c]) # Secret)
        => /\ dpc[c] = "rejected"
           /\ relay[c] = "none"
           /\ transport[c] = "none"
           /\ nin[c] = 0
           /\ \A p \in Procs : powner[p] # c

\* A request with a token that is not the secret was answered.
C11_Witness ==
    /\ request["c1"] # NoRequest
    /\ QueryToken(request["c1"].query) \notin {NoToken, Secret}
    /\ dpc["c1"] = "rejected"

\* C12: a request for the handshake that carries the secret in the query
\* parameter, or only in the Authorization header, is upgraded.
C12_TokenFromQueryOrHeader ==
    \A c \in Conns :
        (/\ request[c] # NoRequest
         /\ request[c].upgrade
         /\ \/ QueryToken(request[c].query) = Secret
            \/ /\ QueryToken(request[c].query) = NoToken
               /\ HeaderToken(request[c].header) = Secret)
        => dpc[c] # "rejected"

\* C13: a `create` whose spawn fails registers nothing and starts no read
\* loop, and is answered with one `error` frame and no `created`.
C13_SpawnFailureReported ==
    [][\A c \in Conns :
          /\ (\E idopt \in ClientIds \cup {NoId} : RecvCreate(c, idopt, FALSE, <<>>))
             => /\ sessions' = sessions
                /\ rpc' = rpc
                /\ powner' = powner
                /\ wire' = wire
                /\ outq' = outq
                /\ dpc'[c] = "error_reply"
          /\ (dpc[c] = "error_reply" /\ dpc'[c] # "error_reply")
             => /\ sessions' = sessions
                /\ rpc' = rpc
                /\ powner' = powner
                /\ outq' = outq
                /\ dpc'[c] = "recv"
                /\ wire'[c] = IF transport[c] = "open"
                              THEN Append(wire[c], ErrorMsg)
                              ELSE wire[c]]_vars

\* A failed spawn was answered while another session is registered.
C13_Witness ==
    /\ ErrorMsg \in FramesOf(wire["c1"])
    /\ \E p \in Procs : Registered(p)
    /\ dpc["c1"] = "recv"

\* C14: a `close` for an id the session map does not hold writes no frame: on
\* one connection every `closed` frame follows a `created` frame for its id
\* with no other `closed` for that id between the two.
C14_CloseUnknownIsNoOp ==
    \A c \in Conns : \A k \in 1..Len(wire[c]) :
        wire[c][k].type = "closed"
        => \E i \in 1..(k - 1) :
              /\ wire[c][i].type = "created"
              /\ wire[c][i].session_id = wire[c][k].session_id
              /\ \A j \in (i + 1)..(k - 1) : wire[c][j] # wire[c][k]

\* C15: an `input` or a `resize` for an id the session map does not hold is
\* ignored: no frame is written or queued, no terminal is written to or
\* resized, the session map is as it was and the receiver task goes on.
C15_UnknownIdIgnored ==
    [][\A c \in Conns : \A id \in Ids :
          (/\ sessions[id] = 0
           /\ \/ \E blocks \in BOOLEAN : RecvInput(c, id, blocks)
              \/ \E dims \in ResizeDims, ok \in BOOLEAN : RecvResize(c, id, dims, ok))
          => /\ wire' = wire
             /\ outq' = outq
             /\ stdin' = stdin
             /\ geom' = geom
             /\ sessions' = sessions
             /\ dpc'[c] = "recv"]_vars

\* A frame was taken after a `create`, while an id is unknown and the one
\* session is as it was created.
C15_Witness ==
    \E p \in Procs : \E id \in Ids :
        /\ Registered(p)
        /\ sessions[id] = 0
        /\ nin["c1"] >= 2
        /\ wire["c1"] = <<Created(psid[p], p)>>
        /\ stdin[p] = <<>>
        /\ geom[p] = <<DefaultCols, DefaultRows>>
        /\ dpc["c1"] = "recv"

\* C16: a frame that cannot be decoded is dropped: the session map, every
\* session, the WebSocket and the channel are as they were, and the receiver
\* task awaits the next frame.
C16_UndecodableDropped ==
    [][\A c \in Conns :
          RecvIgnored(c)
          => /\ UNCHANGED <<regVars, procVars, wire, outq, relay, transport>>
             /\ CanTake(c)']_vars

\* Three frames were taken, two of them `create` frames that were answered and
\* whose sessions are registered.
C16_Witness ==
    /\ nin["c1"] = 3
    /\ Len(wire["c1"]) = 2
    /\ \A p \in 1..2 : Registered(p) /\ Created(psid[p], p) \in FramesOf(wire["c1"])
    /\ dpc["c1"] = "recv"

\* C17: a `create` frame is answered once, with `created` or `error`, and only
\* when the spawn attempt is over: nothing is written while the frame is taken
\* and the session is registered; the id is the client's when the frame gives
\* one, a fresh one otherwise; the session is in the session map when its
\* `created` is written; and no `created` or `error` is written otherwise.
C17_CreateAnsweredOnce ==
    [][\A c \in Conns :
          /\ \A idopt \in ClientIds \cup {NoId} : \A ok \in BOOLEAN :
                RecvCreate(c, idopt, ok, <<>>)
                => /\ wire' = wire /\ outq' = outq
                   /\ dpc'[c] = IF ok THEN "insert" ELSE "error_reply"
                   /\ IF idopt # NoId
                      THEN dcur'[c].sid = idopt
                      ELSE dcur'[c].sid \in UuidIds \ KnownIds
          /\ (dpc[c] = "insert" /\ dpc'[c] # "insert")
             => /\ wire' = wire /\ outq' = outq
                /\ dcur'[c] = dcur[c]
                /\ sessions'[dcur[c].sid] = dcur[c].proc
                /\ dpc'[c] = "created_reply"
          /\ (dpc[c] = "created_reply" /\ dpc'[c] # "created_reply")
             => /\ sessions[dcur[c].sid] = dcur[c].proc
                /\ dpc'[c] = "recv"
                /\ wire'[c] = IF transport[c] = "open"
                              THEN Append(wire[c], Created(dcur[c].sid, dcur[c].proc))
                              ELSE wire[c]
          /\ (dpc[c] = "error_reply" /\ dpc'[c] # "error_reply")
             => /\ dpc'[c] = "recv"
                /\ wire'[c] = IF transport[c] = "open"
                              THEN Append(wire[c], ErrorMsg)
                              ELSE wire[c]
          /\ (/\ Len(wire'[c]) > Len(wire[c])
              /\ wire'[c][Len(wire'[c])].type \in {"created", "error"})
             => dpc[c] \in {"created_reply", "error_reply"}]_vars

\* Connection c was told `created` for id, then `closed`, and not `created`
\* again since.
ClosedLast(c, id) ==
    \E k \in 1..Len(wire[c]) :
        /\ wire[c][k] = Closed(id)
        /\ \E i \in 1..(k - 1) :
              wire[c][i].type = "created" /\ wire[c][i].session_id = id
        /\ \A j \in (k + 1)..Len(wire[c]) :
              ~(wire[c][j].type = "created" /\ wire[c][j].session_id = id)

\* C18: once a connection has created and closed a session, and until it is
\* told `created` for that id again, an `input` for the id on that connection is
\* ignored: nothing is written to any terminal, no write is begun and no frame
\* is written or queued.
C18_InputAfterCloseIgnored ==
    [][\A c \in Conns : \A id \in Ids :
          (/\ ClosedLast(c, id)
           /\ transport[c] = "open"
           /\ \E blocks \in BOOLEAN : RecvInput(c, id, blocks))
          => /\ stdin' = stdin
             /\ dpc'[c] = "recv"
             /\ wire' = wire
             /\ outq' = outq]_vars

\* Where the `created` frame of process p stands on the WebSocket of its
\* connection (0: nowhere), and how many `closed` frames for its id follow it.
CreatedAt(p) ==
    IF powner[p] = "-" THEN 0
    ELSE LET w == wire[powner[p]]
             at == {i \in 1..Len(w) : w[i] = Created(psid[p], p)}
         IN  IF at = {} THEN 0 ELSE CHOOSE i \in at : TRUE
ClosedSince(p) ==
    IF CreatedAt(p) = 0 THEN 0
    ELSE LET w == wire[powner[p]]
         IN  Cardinality({k \in (CreatedAt(p) + 1)..Len(w) : w[k] = Closed(psid[p])})

\* C20: a `close` for a session whose shell has ended and whose read loop has
\* seen the end of the stream completes, and the two triggers together give
\* one `closed`: none was handed to the connection while the session was
\* registered, the reply to the `close` is the first, the session is out of
\* the session map and the receiver task awaits the next frame.
C20_CloseAfterExit ==
    [][\A p \in Procs :
          /\ (Registered(p) /\ CreatedAt(p) # 0 /\ transport[powner[p]] = "open")
             => /\ ClosedSince(p) = 0
                /\ Closed(psid[p]) \notin FramesOf(outq[powner[p]])
          /\ (/\ CreatedAt(p) # 0
              /\ rpc[p] = "ended"
              /\ ClosedSince(p) = 0
              /\ transport[powner[p]] = "open"
              /\ dpc[powner[p]] = "close_reply"
              /\ dcur[powner[p]].sid = psid[p]
              /\ dpc'[powner[p]] # "close_reply")
             => /\ ClosedSince(p)' = 1
                /\ sessions'[psid[p]] = 0
                /\ dpc'[powner[p]] = "recv"]_vars

\* The shell of a session ended, its read loop saw it, and the session was
\* closed with one `closed` frame.
C20_Witness ==
    \E p \in Procs :
        /\ ~palive[p]
        /\ rpc[p] = "ended"
        /\ CreatedAt(p) # 0
        /\ ClosedSince(p) = 1
        /\ sessions[psid[p]] = 0
        /\ dpc[powner[p]] = "recv"

\* The WebSocket of the connection of process p is writable.
Writable(p) == powner[p] # "-" /\ transport[powner[p]] = "open"
\* The first k bytes the shell of p wrote are on the WebSocket of its
\* connection, in `output` frames of its session.
Delivered(p, k) ==
    /\ powner[p] # "-"
    /\ Len(OutputData(wire[powner[p]], p)) >= k
    /\ \A i \in 1..Len(wire[powner[p]]) :
          LET f == wire[powner[p]][i]
          IN  (f.type = "output" /\ f.proc = p) => f.session_id = psid[p]

\* C19: with the read loops and the sender task scheduled fairly, every byte a
\* running shell writes is read, and every byte read is written to the
\* WebSocket in an `output` frame of the session, unless the WebSocket stops
\* being writable.
C19_OutputDelivered ==
    \A p \in 1..LiveProcs : \A k \in 1..LiveBytes :
        /\ (rpc[p] = "reading" /\ Len(emitted[p]) >= k)
           ~> (nread[p] >= k \/ ~Writable(p))
        /\ (nread[p] >= k) ~> (Delivered(p, k) \/ ~Writable(p))

\* Everything a running shell wrote is on the WebSocket, which is writable.
C19_Witness ==
    \E p \in Procs :
        /\ palive[p]
        /\ Writable(p)
        /\ Len(emitted[p]) = LiveBytes
        /\ Delivered(p, LiveBytes)

\* C21: a request to a path that requires authentication (below /api/ but
\* /api/auth/check, or /ws) that carries no token, or a token that is not the
\* secret, reaches no handler: it is answered 401, unless no route takes it.
C21_ApiAndWsRequireToken ==
    (http.n > 0 /\ RequiresAuth(http.path) /\ ~CheckAuth(http))
    => (http.status = 401 \/ http.handler = "files")

\* The path, without its leading "/", has a name that is `..`.
HasParentComponent(path) ==
    \E i \in 1..Len(Split(TrimStartMatches(path, "/"), "/")) :
        Split(TrimStartMatches(path, "/"), "/")[i] = DotDot

\* C22: read_file, write_file, create_file and delete_file, called with any
\* base and a path that has a `..` component, return InvalidInput, make no
\* call to the filesystem and leave the disk as it is.
C22_TraversalRejected ==
    [][HasParentComponent(fscall.path)
       => /\ fscall'.result = "InvalidInput"
          /\ fscall'.calls = <<>>
          /\ disk' = disk]_vars

\* write_file was called with ../a in the workspace directory, next to which
\* /a exists, and refused it; /a is as it was.
C22_Witness ==
    /\ fscall.op = "write_file"
    /\ fscall.base = WorkspaceDir
    /\ fscall.path = <<".", ".", "/", "a">>
    /\ fscall.result = "InvalidInput"
    /\ disk = UsedDisk

\* C23: every frame that reaches the WebSocket of a connection is the head of
\* the connection's channel, taken from it by the sender task: no other task
\* writes to the WebSocket.
C23_RelayAloneWrites ==
    [][\A c \in Conns :
          wire'[c] # wire[c]
          => /\ relay[c] = "running"
             /\ outq[c] # <<>>
             /\ wire'[c] = Append(wire[c], Head(outq[c]))
             /\ outq'[c] = Tail(outq[c])]_vars

\* C24: the PtySession of a session (its writer and its terminal) is dropped
\* only once the session map no longer holds it, and from then on no `input`
\* writes to it and no `resize` resizes it: what is written to a terminal, or
\* its size, changes only while its session is in the map and not dropped, and
\* a write that is blocked is a write to a session in the map.
C24_RemovedBeforeReleased ==
    [][\A p \in Procs :
          /\ released'[p] => ~Registered(p)'
          /\ (psid[p] # NoId /\ (stdin'[p] # stdin[p] \/ geom'[p] # geom[p]))
             => (Registered(p) /\ ~released[p])
          /\ \A c \in Conns :
                (dpc'[c] = "write" /\ dcur'[c].proc = p)
                => (Registered(p)' /\ ~released'[p])]_vars

\* A session was written to and resized, then closed and dropped, and a frame
\* that names its id was taken after that.
C24_Witness ==
    \E p \in Procs :
        /\ released[p]
        /\ stdin[p] # <<>>
        /\ geom[p] \in ResizeDims
        /\ \E c \in Conns :
              /\ Closed(psid[p]) \in FramesOf(wire[c])
              /\ dpc[c] = "recv"
              /\ nin[c] > stdin[p][Len(stdin[p])].seq + 1
              /\ stdin[p][Len(stdin[p])].conn = c

\* C25: no two writes to the terminal of one session are in progress at once,
\* whichever connections their `input` frames came on, and each step writes
\* at most one frame's data to a terminal; the output of a session is read
\* by its own reader thread only.
C25_SingleWriterSingleReader ==
    [][/\ \A c1, c2 \in Conns :
             (c1 # c2 /\ dpc'[c1] = "write" /\ dpc'[c2] = "write")
             => dcur'[c1].proc # dcur'[c2].proc
       /\ \A p \in Procs :
             /\ stdin'[p] # stdin[p]
                => /\ Len(stdin'[p]) = Len(stdin[p]) + 1
                   /\ \A c \in Conns : dpc[c] = "write" => dcur[c].proc # p \/ dpc'[c] = "recv"
             /\ nread'[p] # nread[p]
                => /\ rpc[p] = "reading"
                   /\ \A q \in Procs \ {p} : nread'[q] = nread[q]
                   /\ \E n \in 1..Unread(p) : ReaderRead(p, n)]_vars

\* A write to a session is blocked on one connection while the session was
\* written to from the other connection before, and its output was read.
C25_Witness ==
    \E p \in Procs : \E c1, c2 \in Conns :
        /\ c1 # c2
        /\ dpc[c1] = "write" /\ dcur[c1].proc = p
        /\ dpc[c2] = "recv"
        /\ \E i \in 1..Len(stdin[p]) : stdin[p][i].conn = c2
        /\ nread[p] > 0

\* Connection c was told `created` for id and has been told neither `closed`
\* nor `created` for that id since.
CreatedLast(c, id) ==
    \E k \in 1..Len(wire[c]) :
        /\ wire[c][k].type = "created" /\ wire[c][k].session_id = id
        /\ \A j \in (k + 1)..Len(wire[c]) :
              ~(wire[c][j].type \in {"created", "closed"} /\ wire[c][j].session_id = id)

\* C26: the receiver task takes the next frame of its connection only when
\* every effect of the one before is complete (spawn, registration, reply,
\* terminal write), and an `input` that a connection sends after its `create`
\* of the same id was answered with `created` finds the session registered.
C26_InputAfterCreateFindsSession ==
    [][\A c \in Conns :
          /\ nin'[c] # nin[c]
             => /\ nin'[c] = nin[c] + 1
                /\ dpc[c] = "recv"
                /\ dcur[c] = NoCur
                /\ lock # c
          /\ \A id \in Ids :
                (/\ CreatedLast(c, id)
                 /\ transport[c] = "open"
                 /\ \E blocks \in BOOLEAN : RecvInput(c, id, blocks))
                => sessions[id] # 0]_vars

\* C27: when the read loop of a session ends at the end of the stream or on a
\* read error, every other session keeps its entry in the session map, its
\* handles, its terminal and its read loop as they were, and nothing is
\* written or queued for it.
C27_EofLeavesOthers ==
    [][\A p \in Procs :
          (rpc[p] = "reading" /\ rpc'[p] = "ended" /\ ~palive[p])
          => /\ sessions' = sessions
             /\ lock' = lock
             /\ outq' = outq /\ wire' = wire
             /\ \A q \in Procs \ {p} :
                   /\ rpc'[q] = rpc[q]
                   /\ released'[q] = released[q]
                   /\ palive'[q] = palive[q]
                   /\ psid'[q] = psid[q] /\ powner'[q] = powner[q]
                   /\ stdin'[q] = stdin[q] /\ geom'[q] = geom[q]
                   /\ nread'[q] = nread[q] /\ emitted'[q] = emitted[q]]_vars

\* Two registered sessions: the read loop of one has ended, that of the other
\* goes on reading from a live shell.
C27_Witness ==
    \E p, q \in Procs :
        /\ p # q
        /\ Registered(p) /\ Registered(q)
        /\ rpc[p] = "ended" /\ ~palive[p]
        /\ rpc[q] = "reading" /\ palive[q] /\ ~released[q]

\* C28: a read of n > 0 bytes (n <= 4096) hands exactly one `output` frame to
\* the queue of the session's connection, tagged with the session's id and
\* made of the bytes of that read alone, before the next read; it changes no
\* other queue and writes nothing to a WebSocket.  (When the sender task is
\* gone the send fails and the loop ends.)
C28_OneFramePerRead ==
    [][\A p \in Procs :
          nread'[p] # nread[p]
          => LET n == nread'[p] - nread[p]
                 chunk == SubSeq(emitted[p], nread[p] + 1, nread'[p])
                 c == powner[p]
             IN  /\ n >= 1 /\ n <= BufSize
                 /\ wire' = wire
                 /\ \A d \in Conns \ {c} : outq'[d] = outq[d]
                 /\ IF relay[c] = "running"
                    THEN /\ outq'[c] = Append(outq[c], Output(psid[p], FromUtf8Lossy(chunk), p))
                         /\ rpc'[p] = "reading"
                    ELSE /\ outq'[c] = outq[c]
                         /\ rpc'[p] = "ended"]_vars

\* Two reads of one session gave two frames, queued in the order of the
\* reads, and the shell has written more since.
C28_Witness ==
    \E p \in Procs :
        /\ powner[p] \in Conns
        /\ Len(outq[powner[p]]) = 2
        /\ nread[p] = 3 /\ Unread(p) > 0
        /\ outq[powner[p]][1] = Output(psid[p], FromUtf8Lossy(SubSeq(emitted[p], 1, 2)), p)
        /\ outq[powner[p]][2] = Output(psid[p], FromUtf8Lossy(SubSeq(emitted[p], 3, 3)), p)

\* A `resize` frame for the id of session p is taken while p is registered.
ResizeFor(p, c, dims, ok) ==
    /\ psid[p] # NoId
    /\ sessions[psid[p]] = p
    /\ RecvResize(c, psid[p], dims, ok)

\* C29, as stated: a session is spawned with 80 columns and 24 rows; a
\* `resize` for its id leaves it with the cols and rows of that frame; and no
\* other step changes its geometry.
C29_GeometryFollowsResize ==
    [][\A p \in Procs :
          /\ (psid[p] = NoId /\ psid'[p] # NoId) => geom'[p] = <<DefaultCols, DefaultRows>>
          /\ psid[p] # NoId
             => IF \E c \in Conns, dims \in GeomDims, ok \in BOOLEAN : ResizeFor(p, c, dims, ok)
                THEN \E c \in Conns, dims \in GeomDims, ok \in BOOLEAN :
                        ResizeFor(p, c, dims, ok) /\ geom'[p] = dims
                ELSE geom'[p] = geom[p]]_vars

\* C29, amended: a session is spawned with 80 columns and 24 rows; a `resize`
\* for its id that the terminal accepts leaves it with the cols and rows of
\* that frame, one that the terminal refuses leaves its geometry as it was;
\* and no other step, a `resize` for another id included, changes it: a step
\* changes the geometry of one session at most, and of a registered one only.
C29_GeometryFollowsAcceptedResize ==
    [][\A p \in Procs :
          /\ (psid[p] = NoId /\ psid'[p] # NoId) => geom'[p] = <<DefaultCols, DefaultRows>>
          /\ psid[p] # NoId
             => /\ \A c \in Conns, dims \in GeomDims, ok \in BOOLEAN :
                      ResizeFor(p, c, dims, ok) => geom'[p] = IF ok THEN dims ELSE geom[p]
                /\ (\A c \in Conns, dims \in GeomDims, ok \in BOOLEAN : ~ResizeFor(p, c, dims, ok))
                   => geom'[p] = geom[p]
                /\ geom'[p] # geom[p]
                   => /\ sessions[psid[p]] = p
                      /\ geom'[p] \in GeomDims
                      /\ nin' # nin
                      /\ \A q \in Procs \ {p} : geom'[q] = geom[q]]_vars

\* Four frames were taken: two sessions are registered, one was resized (the
\* size of its geometry is one of the two of the `resize` frames, so with
\* four frames and two of them `create` frames it was resized once or twice)
\* and the other is as it was spawned.
C29_Witness ==
    \E p, q \in Procs :
        /\ p # q
        /\ Registered(p) /\ Registered(q)
        /\ nin["c1"] = 4 /\ dpc["c1"] = "recv"
        /\ geom[p] = <<120, 40>>
        /\ geom[q] = <<DefaultCols, DefaultRows>>

\* C30: a request to a handler of workspace.rs that carries no token, or a
\* token that is not the secret, is answered 401 by the handler, and the
\* workspace configuration (in memory and saved), the disk and the
\* repositories are as they were.
C30_NoTokenNoChange ==
    [][(/\ http'.n # http.n
        /\ Route(http'.method, http'.path) \in WorkspaceHandlers
        /\ \/ ExtractTokenFromRequest(http') = NoToken
           \/ ~VerifyToken(ExtractTokenFromRequest(http')))
       => /\ http'.handler \in WorkspaceHandlers => http'.status = 401
          /\ UNCHANGED <<disk, workspaces, saved, repos>>]_vars

\* The second request, a DELETE of a workspace the server holds, came with a
\* token that is not the secret while the secret was in its header: it was
\* answered 401 and the workspace, its directory and its repository are there.
C30_Witness ==
    /\ http.n = 2
    /\ http.handler = "delete_workspace"
    /\ ExtractTokenFromRequest(http) # NoToken
    /\ ~VerifyToken(ExtractTokenFromRequest(http))
    /\ http.status = 401
    /\ workspaces[NameOf(http)] # NoWorkspace
    /\ saved = workspaces
    /\ Exists(disk, RepoPath(NameOf(http)))
    /\ Did(NameOf(http), "-", "clone") \in repos

\* The request that was served last carried the secret as its token.
Authorised(req) ==
    /\ ExtractTokenFromRequest(req) # NoToken
    /\ VerifyToken(ExtractTokenFromRequest(req))

\* C31: create_workspace for a name the configuration holds (every name of
\* WsNames is held) answers 409 Conflict, and the configuration in memory,
\* the saved configuration, the disk and the repositories are as they were.
C31_CreateExistingConflicts ==
    [][(/\ http'.n # http.n
        /\ http'.handler = "create_workspace"
        /\ Authorised(http')
        /\ \A w \in WsNames : workspaces[w] # NoWorkspace)
       => /\ http'.status = 409
          /\ UNCHANGED <<disk, workspaces, saved, repos>>]_vars

\* The second request was a create_workspace with the secret, answered 409,
\* and the workspace, its worktree and its repository are those the server
\* started with.
C31_Witness ==
    /\ http.n = 2
    /\ http.handler = "create_workspace"
    /\ Authorised(http)
    /\ http.status = 409
    /\ disk = LoadedDisk
    /\ workspaces = [w \in WsNames |-> WorkspaceConfig(RepoUrl, "main")]
    /\ saved = workspaces

\* C32: on every WebSocket an `output` frame of a session comes after the
\* `created` frame of that session.
C32_NoOutputBeforeCreated ==
    \A c \in Conns : \A i \in 1..Len(wire[c]) :
        wire[c][i].type = "output"
        => \E j \in 1..(i - 1) : wire[c][j] = Created(wire[c][i].session_id, wire[c][i].proc)

\* C33: on every WebSocket, once a session was answered `created` and then
\* `closed`, an `output` frame of its id that comes after the `closed` frame
\* has a `created` frame of that id between the two.
C33_NoOutputAfterClosed ==
    \A c \in Conns : \A h, i, j \in 1..Len(wire[c]) :
        (/\ h < i /\ i < j
         /\ wire[c][h].type = "created"
         /\ wire[c][i] = Closed(wire[c][h].session_id)
         /\ wire[c][j].type = "output"
         /\ wire[c][j].session_id = wire[c][h].session_id)
        => \E k \in (i + 1)..(j - 1) :
              /\ wire[c][k].type = "created"
              /\ wire[c][k].session_id = wire[c][h].session_id

\* C34: a session is written to, resized, removed from the session map,
\* replaced in it or released only by a step of the receiver task of the
\* connection that created it: while that task takes no frame and stays
\* where it is, the session's terminal, geometry, entry and handles are as
\* they were.
C34_ConnectionsIsolated ==
    [][\A p \in Procs :
          (/\ powner[p] \in Conns
           /\ nin'[powner[p]] = nin[powner[p]]
           /\ dpc'[powner[p]] = dpc[powner[p]])
          => /\ stdin'[p] = stdin[p]
             /\ geom'[p] = geom[p]
             /\ released'[p] = released[p]
             /\ Registered(p) => Registered(p)']_vars

\* C35: every `output` frame in a connection's channel or on its WebSocket is
\* of a session that a `create` of this connection spawned, and carries
\* that session's id.
C35_OutputToCreatorOnly ==
    \A c \in Conns : \A f \in FramesOf(outq[c]) \cup FramesOf(wire[c]) :
        f.type = "output" => (powner[f.proc] = c /\ psid[f.proc] = f.session_id)

\* A session of one connection was written to from the other connection, its
\* output was read and went out on the WebSocket of the connection that
\* created it, and the other connection was handed nothing.
C35_Witness ==
    \E p \in Procs : \E c1, c2 \in Conns :
        /\ c1 # c2
        /\ powner[p] = c1
        /\ relay[c2] = "running" /\ transport[c2] = "open"
        /\ \E i \in 1..Len(stdin[p]) : stdin[p][i].conn = c2
        /\ \E i \in 1..Len(wire[c1]) : wire[c1][i].type = "output" /\ wire[c1][i].proc = p
        /\ outq[c2] = <<>> /\ wire[c2] = <<>>

\* C36: no receiver task holds the lock of the session map while it writes a
\* frame to its WebSocket.
C36_NoLockAcrossTransportWrite ==
    \A c \in Conns :
        dpc[c] \in {"created_reply", "error_reply", "close_reply"} => lock # c

\* C37: once the receiver task of a connection has ended, its sender task
\* ends and the reader thread of every session it created ends.
C37_NoTaskLeak ==
    (dpc["c1"] = "ended")
    ~> (/\ relay["c1"] # "running"
        /\ \A p \in Procs : powner[p] = "c1" => rpc[p] # "reading")

\* C38: an `input` for a registered session whose shell is gone (write_all
\* and flush fail), a blocked write that returns because the shell is gone,
\* and a `resize` that the terminal refuses are absorbed: no frame is written
\* or queued, the session map and the handles are as they were, nothing is
\* written to a terminal or resized, and the receiver task awaits the next
\* frame without the lock.
C38_FailedWriteAbsorbed ==
    [][\A c \in Conns :
          (\/ \E id \in Ids :
                /\ sessions[id] # 0
                /\ \/ ~palive[sessions[id]] /\ \E blocks \in BOOLEAN : RecvInput(c, id, blocks)
                   \/ \E dims \in ResizeDims : RecvResize(c, id, dims, FALSE)
           \/ dpc[c] = "write" /\ ~palive[dcur[c].proc] /\ dpc'[c] # "write")
          => /\ wire' = wire /\ outq' = outq
             /\ sessions' = sessions /\ released' = released
             /\ stdin' = stdin /\ geom' = geom
             /\ dpc'[c] = "recv"
             /\ lock' = "-"]_vars

\* A session is registered, its shell is gone, and two frames were taken
\* after its `create` that left no frame, nothing on its terminal and its
\* geometry as it was.
C38_Witness ==
    \E p \in Procs :
        /\ Registered(p) /\ ~released[p]
        /\ ~palive[p]
        /\ nin["c1"] = 3
        /\ wire["c1"] = <<Created(psid[p], p)>>
        /\ outq["c1"] = <<>>
        /\ stdin[p] = <<>>
        /\ geom[p] = <<DefaultCols, DefaultRows>>
        /\ dpc["c1"] = "recv"

\* C40: when create_workspace answers with an error (500), the name of its
\* request (every name of WsNames) is not in the configuration in memory
\* afterwards.
C40_FailedCreateLeavesNoEntry ==
    [][(/\ http'.n # http.n
        /\ http'.handler = "create_workspace"
        /\ http'.status = 500)
       => \A w \in WsNames : workspaces'[w] = NoWorkspace]_vars

\* C39: of the create_workspace requests for one name at most one is
\* answered 201, and the workspace of a request that was answered 201 is in
\* the configuration and has its directory and its repository on the disk,
\* whatever the other requests did.
C39_ConcurrentCreateKeepsDirectory ==
    /\ \A k1, k2 \in Workers :
          (k1 # k2 /\ creating[k1].status = 201 /\ creating[k2].status = 201)
          => creating[k1].name # creating[k2].name
    /\ \A k \in Workers :
          creating[k].status = 201
          => /\ workspaces[creating[k].name] # NoWorkspace
             /\ Exists(disk, WorkspacePath(creating[k].name))
             /\ Exists(disk, RepoPath(creating[k].name))

====
